---- MODULE Spec2Model ----
(***************************************************************************)
(* Device Link (BluetoothService), Error Classifier, Session Directory     *)
(* (SessionService) and Relay Channel (UserDeviceView / SupportView) of    *)
(* remote-bt-assist, as a state machine.  Every asynchronous method is     *)
(* split at its await points; the code between two awaits is one action.   *)
(***************************************************************************)
EXTENDS Integers, Sequences, FiniteSets, TLC

(***************************************************************************)
(* Error messages.  A message is the sequence of its tokens (words and     *)
(* punctuation marks); String.includes is containment of a contiguous      *)
(* token sequence, which agrees with substring containment on every        *)
(* message and marker below.                                               *)
(***************************************************************************)
Includes(msg, marker) ==
    \E i \in 1..(Len(msg) - Len(marker) + 1) :
        SubSeq(msg, i, i + Len(marker) - 1) = marker

\* Messages constructed by BluetoothService itself.
MsgUnavailable ==
    <<"Web", "Bluetooth", "API", "is", "not", "available", "in", "this",
      "browser/environment">>
MsgDeviceNotFound(deviceId) == <<"Device", "with", "ID", deviceId, "not", "found">>
MsgGattServer == <<"Failed", "to", "connect", "to", "GATT", "server">>
MsgNoService ==
    <<"No", "compatible", "Bluetooth", "service", "found", "on", "this", "device">>
MsgNoCharacteristic == <<"Bluetooth", "characteristic", "not", "found">>
MsgNotifications == <<"Failed", "to", "set", "up", "device", "notifications">>
MsgNoDevice ==
    <<"No", "device", "connected", "or", "characteristic", "not", "available">>

\* Messages of the platform's rejections (Web Bluetooth in Chromium).
MsgUserCancelled == <<"User", "cancelled", "the", "requestDevice()", "chooser", ".">>
MsgAdapter == <<"Bluetooth", "adapter", "is", "not", "available", ".">>
MsgGattDisconnected ==
    <<"GATT", "Server", "is", "disconnected", ".", "Cannot", "perform", "GATT",
      "operations", ".">>
MsgGattOperation == <<"GATT", "operation", "failed", "for", "unknown", "reason", ".">>
MsgConnectionAttempt == <<"Connection", "attempt", "failed", ".">>

\* What requestDevice, gatt.connect and writeValue may reject with.
ChooserErrors == {MsgUserCancelled, MsgAdapter}
GattConnectErrors == {MsgConnectionAttempt, MsgGattDisconnected}
WriteErrors == {MsgGattOperation, MsgGattDisconnected}

(***************************************************************************)
(* Error Classifier                                                        *)
(***************************************************************************)
BluetoothErrorType ==
    {"not-supported", "user-cancelled", "security-error", "connection-failed",
     "device-disconnected", "permission-denied", "service-not-found",
     "characteristic-not-found", "write-failed", "notification-failed",
     "unknown"}

\* The if / else-if chain of parseBluetoothError, in source order.
Rules ==
    << [markers |-> {<<"User", "cancelled">>}, type |-> "user-cancelled"],
       [markers |-> {<<"Bluetooth", "adapter", "is", "not", "available">>},
        type |-> "not-supported"],
       [markers |-> {<<"GATT", "Server", "is", "disconnected">>},
        type |-> "device-disconnected"],
       [markers |-> {<<"NotFoundError">>, <<"no", "such", "service">>},
        type |-> "service-not-found"],
       [markers |-> {<<"SecurityError">>, <<"secure", "context">>},
        type |-> "security-error"],
       [markers |-> {<<"Permission", "denied">>, <<"NotAllowedError">>},
        type |-> "permission-denied"],
       [markers |-> {<<"Failed", "to", "connect">>}, type |-> "connection-failed"],
       [markers |-> {<<"getDevices", "is", "not", "a", "function">>},
        type |-> "not-supported"],
       [markers |-> {<<"No", "device", "connected">>}, type |-> "device-disconnected"],
       [markers |-> {<<"characteristic", "not", "available">>},
        type |-> "characteristic-not-found"] >>

\* A thrown JavaScript value: an Error with a message, a string, undefined,
\* null or a plain object.
JsError(msg) == [tag |-> "Error", text |-> msg]

\* String(error) for a value that is not an Error.
JsString(v) ==
    CASE v.tag = "string" -> v.text
      [] v.tag = "undefined" -> <<"undefined">>
      [] v.tag = "null" -> <<"null">>
      [] OTHER -> <<"[object", "Object]">>

\* The last of the matching rules instead of the first.
LastOf(S) == CHOOSE i \in S : \A j \in S : i >= j
MinOf(S) == CHOOSE i \in S : \A j \in S : i <= j

RuleMatches(rule, errorMessage) == \E m \in rule.markers : Includes(errorMessage, m)

\* parseBluetoothError without its default: nothing is returned when no rule matches.
parseBluetoothErrorNoDefault(error) ==
    LET errorMessage == IF error.tag = "Error" THEN error.text ELSE JsString(error)
        hits == {i \in 1..Len(Rules) : RuleMatches(Rules[i], errorMessage)}
    IN  IF hits = {} THEN "undefined" ELSE Rules[MinOf(hits)].type

parseBluetoothError(error) ==
    LET errorMessage == IF error.tag = "Error" THEN error.text ELSE JsString(error)
        hits == {i \in 1..Len(Rules) : RuleMatches(Rules[i], errorMessage)}
    IN  IF hits = {} THEN "unknown" ELSE Rules[MinOf(hits)].type


(***************************************************************************)
(* State                                                                   *)
(***************************************************************************)
VARIABLES
    env,                \* navigator / window facts read by isWebBluetoothAvailable
    gattConnected,      \* device.gatt.connected of each platform device object
    scannedDevices,     \* BluetoothService.scannedDevices (ids)
    connectedDevice,    \* BluetoothService.connectedDevice (id or "null")
    characteristic,     \* BluetoothService.characteristic (owning device id or "null")
    isConnectionActive, \* BluetoothService.isConnectionActive
    scan,               \* position of the pending scanForDevices call
    conn,               \* position of the pending connectToDevice call
    send,               \* position of each caller's pending sendCommand call
    scanResult,         \* outcome of the last scanForDevices call
    connResult,         \* outcome of the last connectToDevice call, and the step it ended at
    sendResult,         \* outcome of each caller's last sendCommand call
    lastDisconnect,     \* the last disconnect() call: where it found the link, whether it threw
    livenessFailed,     \* a verifyConnection found a Connected link dead, no reconnect since
    failure,            \* the value handed to the Error Classifier
    classified,         \* what the Error Classifier returned for it
    remote_sessions,    \* store table remote_sessions: is_active of each row
    activeSessions,     \* SessionService.activeSessions (ids in the local cache)
    isFetching,         \* SessionService.isFetching
    fetch,              \* position of the running fetchSessionsFromDb
    create,             \* position of the pending createSession call
    close,              \* position of the pending closeSession call
    getAll,             \* the pending getAllSessions call
    createResult,       \* what the last createSession call resolved or rejected with
    closeResult,        \* what the last closeSession call resolved with
    getAllResult,       \* what the last getAllSessions call returned
    createdResolved,    \* ids returned so far by createSession calls
    closedResolved,     \* ids closed in the store by closeSession calls that have resolved
    sharedSession,      \* BluetoothService.sharedSession (id, 0: null)
    activeSession,      \* UserDeviceView activeSession (id, 0: null)
    uiConnected,        \* UserDeviceView isConnected (React state)
    share,              \* the pending onShareSessionSubmit / stopSharingSession of the page
    session_commands,   \* store table session_commands; a record's id is its index,
                        \* its timestamp is named by who set it (the insert of the
                        \* "client", or the column default of the "store")
    executedCommands,   \* UserDeviceView executedCommandsRef.current
    poll,               \* position of each running refreshCommands call
    push,               \* position of the running INSERT subscription handler
    pushEvents,         \* INSERT events the store has emitted and not yet delivered
    sendCount,          \* per record id: sendCommand calls made for it by the device side
    connectedSession,   \* SupportView connectedSession (id, 0: null)
    supSessions,        \* activeSessions of the support page's SessionService
    supFetching,        \* isFetching of the support page's SessionService
    supFetch,           \* position of its running fetchSessionsFromDb
    supNotes,           \* timers set by notifyListeners / addSessionsListener: the list
                        \* each will deliver and the callback it will call
    supOutput,          \* SupportView serialOutput
    supToast,           \* title of the last toast the support page showed
    supList,            \* SupportView activeSessions (the list the page shows)
    supPoll,            \* position of the running refreshCommands of the support page
    intervals,          \* live interval timers of each owner (setInterval not yet cleared)
    dataReceived,       \* texts handed to the data listeners by notifyDataListeners
    channel             \* SupportView realtime channel: the store records whose INSERT
                        \* event has passed it or preceded its subscription

linkVars ==
    <<env, gattConnected, scannedDevices, connectedDevice, characteristic,
      isConnectionActive, scan, conn, send, scanResult, connResult, sendResult,
      lastDisconnect, livenessFailed>>
classVars == <<failure, classified>>
sessVars ==
    <<remote_sessions, activeSessions, isFetching, fetch, create, close, getAll,
      createResult, closeResult, getAllResult, createdResolved, closedResolved>>
relayVars ==
    <<sharedSession, activeSession, uiConnected, share, session_commands,
      executedCommands, poll, push, pushEvents, sendCount, connectedSession>>
supVars == <<supSessions, supFetching, supFetch, supNotes, supOutput, supToast, supList,
             supPoll>>
timerVars == <<intervals>>
dataVars == <<dataReceived>>
channelVars == <<channel>>
vars ==
    <<linkVars, classVars, sessVars, relayVars, supVars, timerVars, dataVars,
      channelVars>>
notLink == <<classVars, sessVars, relayVars, supVars, timerVars, dataVars, channelVars>>
notSess == <<linkVars, classVars, relayVars, supVars, timerVars, dataVars, channelVars>>

(***************************************************************************)
(* Platform                                                                *)
(***************************************************************************)
\* The peripherals the platform chooser can return, with their names as
\* character sequences (<<>>: the device reports no name).
DeviceIds == {"d1", "d2", "d3"}
PlatformName(d) ==
    CASE d = "d1" -> <<"8", "6", "-", "S", "e", "n", "s", "o", "r">>
      [] d = "d2" -> <<"H", "C", "-", "0", "5">>
      [] OTHER -> <<>>
UnknownDevice == <<"U", "n", "k", "n", "o", "w", "n", " ", "D", "e", "v", "i", "c", "e">>

StartsWith(name, prefix) ==
    Len(name) >= Len(prefix) /\ SubSeq(name, 1, Len(prefix)) = prefix

Envs ==
    [hasBluetoothAPI : BOOLEAN, isSecureContext : BOOLEAN,
     isIOS : BOOLEAN, isSafari : BOOLEAN]

isWebBluetoothAvailable ==
    IF ~env.isSecureContext THEN FALSE
    ELSE IF env.isIOS THEN FALSE
    ELSE IF env.isSafari THEN FALSE
    ELSE env.hasBluetoothAPI

\* Concurrent refreshCommands calls and store records the model follows, and
\* the value at which a record's send counter stops counting.
MaxPolls == 1
MaxRecords == 2
MaxCount == 2

PollIds == 1..MaxPolls
PollNames == <<"poll1", "poll2", "poll3", "poll4">>
PollCaller(p) == PollNames[p]
Callers == {"ui", "push"} \cup {PollCaller(p) : p \in PollIds}
\* Texts are sequences of UTF-16 code units, as JavaScript strings are.
CR == 13
LF == 10
AT == <<65, 84>>
ATI == <<65, 84, 73>>
Commands == {AT, ATI}

NoSend == [pc |-> "idle", cmd |-> <<>>, data |-> <<>>, ok |-> FALSE, ch |-> "null",
           lf |-> FALSE]
NoResult == [kind |-> "none", wrote |-> FALSE, lf |-> FALSE]
\* conn.opened remembers that gatt.connect() of this attempt opened the connection.
NoConn == [pc |-> "idle", dev |-> "null", opened |-> FALSE]
NoConnResult == [kind |-> "none", at |-> "idle"]

(***************************************************************************)
(* Device Link                                                             *)
(***************************************************************************)
isConnected ==
    /\ isConnectionActive
    /\ connectedDevice # "null" /\ gattConnected[connectedDevice]
    /\ characteristic # "null"

\* verifyConnection: the value it returns and the fields it leaves behind.
verifyConnection ==
    IF ~isConnectionActive \/ connectedDevice = "null"
    THEN [result |-> FALSE, active |-> isConnectionActive, char |-> characteristic]
    ELSE IF ~gattConnected[connectedDevice]
    THEN [result |-> FALSE, active |-> FALSE, char |-> "null"]
    ELSE IF characteristic = "null"
    THEN [result |-> FALSE, active |-> FALSE, char |-> characteristic]
    ELSE [result |-> TRUE, active |-> isConnectionActive, char |-> characteristic]

\* The link's own fields say Connected (the platform flag may disagree).
LinkBelievesConnected ==
    isConnectionActive /\ connectedDevice # "null" /\ characteristic # "null"

\* Where a call finds the link: inside a pending connect, Connected, Connected
\* by its own fields but dropped by the peripheral, or idle.
LinkPhase ==
    CASE conn.pc # "idle" -> conn.pc
      [] isConnected -> "connected"
      [] LinkBelievesConnected -> "dropped"
      [] OTHER -> "idle"

FoundDead(v) == IF LinkBelievesConnected /\ ~v.result THEN TRUE ELSE livenessFailed

\* The periodic liveness check (UserDeviceView, every 5 s) and any other caller.
verifyConnectionStep ==
    LET v == verifyConnection IN
    /\ isConnectionActive' = v.active
    /\ characteristic' = v.char
    /\ livenessFailed' = FoundDead(v)
    /\ UNCHANGED <<env, gattConnected, scannedDevices, connectedDevice, scan, conn,
                   send, scanResult, connResult, sendResult, lastDisconnect>>

VerifyConnection ==
    /\ verifyConnectionStep
    /\ UNCHANGED notLink

\* The peripheral goes away without the page asking for it.
GattDrop(d) ==
    /\ gattConnected[d]
    /\ gattConnected' = [gattConnected EXCEPT ![d] = FALSE]
    /\ UNCHANGED <<env, scannedDevices, connectedDevice, characteristic,
                   isConnectionActive, scan, conn, send, scanResult, connResult,
                   sendResult, lastDisconnect, livenessFailed>>
    /\ UNCHANGED notLink


\* ---- scanForDevices -----------------------------------------------------
\* The call itself: the availability check, then requestDevice is awaited.
ScanCall ==
    /\ scan = "idle"
    /\ IF ~isWebBluetoothAvailable
       THEN /\ scanResult' = [kind |-> parseBluetoothError(JsError(MsgUnavailable)),
                              devices |-> {}]
            /\ scan' = scan
       ELSE /\ scan' = "choosing"
            /\ scanResult' = [kind |-> "none", devices |-> {}]
    /\ UNCHANGED <<env, gattConnected, scannedDevices, connectedDevice, characteristic,
                   isConnectionActive, conn, send, connResult, sendResult,
                   lastDisconnect, livenessFailed>>
    /\ UNCHANGED notLink

\* The name filter applied to the device the chooser returned.
deviceName(d) == IF PlatformName(d) = <<>> THEN UnknownDevice ELSE PlatformName(d)
passesFilterUnnamed(d) ==
    PlatformName(d) = <<>> \/ StartsWith(deviceName(d), <<"8", "6">>)
passesFilter(d) == StartsWith(deviceName(d), <<"8", "6">>)

\* requestDevice resolves with the device the user picked.
ScanChosen(d) ==
    /\ scan = "choosing"
    /\ scan' = "idle"
    /\ scannedDevices' = IF passesFilter(d) THEN {d} ELSE {}
    /\ scanResult' = [kind |-> "ok", devices |-> IF passesFilter(d) THEN {d} ELSE {}]
    /\ UNCHANGED <<env, gattConnected, connectedDevice, characteristic,
                   isConnectionActive, conn, send, connResult, sendResult,
                   lastDisconnect, livenessFailed>>
    /\ UNCHANGED notLink

\* requestDevice rejects.
ScanRejected(msg) ==
    /\ scan = "choosing"
    /\ scan' = "idle"
    /\ scanResult' = [kind |-> parseBluetoothError(JsError(msg)), devices |-> {}]
    /\ UNCHANGED <<env, gattConnected, scannedDevices, connectedDevice, characteristic,
                   isConnectionActive, conn, send, connResult, sendResult,
                   lastDisconnect, livenessFailed>>
    /\ UNCHANGED notLink

\* ---- connectToDevice ----------------------------------------------------
\* The catch block of connectToDevice: reset, then reject with the parsed error.
ConnectCatch(error) ==
    /\ isConnectionActive' = FALSE
    /\ characteristic' = "null"
    /\ conn' = NoConn
    /\ connResult' = [kind |-> parseBluetoothError(error), at |-> conn.pc]

\* The call itself, up to the await of gatt.connect().
ConnectCall(deviceId) ==
    /\ conn.pc = "idle"
    /\ IF ~isWebBluetoothAvailable
       THEN /\ connResult' = [kind |-> parseBluetoothError(JsError(MsgUnavailable)),
                              at |-> "idle"]
            /\ UNCHANGED <<conn, isConnectionActive, characteristic>>
       ELSE IF deviceId \notin scannedDevices
       THEN ConnectCatch(JsError(MsgDeviceNotFound(deviceId)))
       ELSE /\ conn' = [pc |-> "gatt", dev |-> deviceId, opened |-> FALSE]
            /\ connResult' = NoConnResult
            /\ UNCHANGED <<isConnectionActive, characteristic>>
    /\ UNCHANGED <<env, gattConnected, scannedDevices, connectedDevice, scan, send,
                   scanResult, sendResult, lastDisconnect, livenessFailed>>
    /\ UNCHANGED notLink

\* gatt.connect() resolves: the active flag is set, the vendor service requested.
ConnectGattOk ==
    /\ conn.pc = "gatt"
    /\ gattConnected' = [gattConnected EXCEPT ![conn.dev] = TRUE]
    /\ isConnectionActive' = TRUE
    /\ livenessFailed' = FALSE
    /\ conn' = [conn EXCEPT !.pc = "service", !.opened = ~gattConnected[conn.dev]]
    /\ UNCHANGED <<env, scannedDevices, connectedDevice, characteristic, scan, send,
                   scanResult, connResult, sendResult, lastDisconnect>>
    /\ UNCHANGED notLink

\* gatt.connect() rejects.
ConnectGattFail(msg) ==
    /\ conn.pc = "gatt"
    /\ ConnectCatch(JsError(msg))
    /\ UNCHANGED <<env, gattConnected, scannedDevices, connectedDevice, scan, send,
                   scanResult, sendResult, lastDisconnect, livenessFailed>>
    /\ UNCHANGED notLink

\* A GATT request of the pending connect resolves (only on a live GATT server).
connectStepOk ==
    /\ conn.pc \in {"service", "fallback", "char", "notify"}
    /\ gattConnected[conn.dev]
    /\ CASE conn.pc \in {"service", "fallback"} ->
              /\ conn' = [conn EXCEPT !.pc = "char"]
              /\ UNCHANGED <<characteristic, connectedDevice, connResult>>
         [] conn.pc = "char" ->
              /\ characteristic' = conn.dev
              /\ conn' = [conn EXCEPT !.pc = "notify"]
              /\ UNCHANGED <<connectedDevice, connResult>>
         [] OTHER ->
              /\ connectedDevice' = conn.dev
              /\ conn' = NoConn
              /\ connResult' = [kind |-> "ok", at |-> "notify"]
              /\ UNCHANGED characteristic
    /\ UNCHANGED <<env, gattConnected, scannedDevices, isConnectionActive, scan, send,
                   scanResult, sendResult, lastDisconnect, livenessFailed>>

ConnectStepOk ==
    /\ connectStepOk
    /\ UNCHANGED notLink

\* The vendor service 0000ffe0 cannot be resolved: generic_access is tried next.
ConnectServiceFail ==
    /\ conn.pc = "service"
    /\ conn' = [conn EXCEPT !.pc = "fallback"]
    /\ UNCHANGED <<env, gattConnected, scannedDevices, connectedDevice, characteristic,
                   isConnectionActive, scan, send, scanResult, connResult, sendResult,
                   lastDisconnect, livenessFailed>>
    /\ UNCHANGED notLink

\* The error each later step throws into the catch block when its request fails.
StepError(pc) ==
    CASE pc = "fallback" -> JsError(MsgNoService)
      [] pc = "char" -> JsError(MsgNoCharacteristic)
      [] OTHER -> JsError(MsgNotifications)

ConnectStepFail ==
    /\ conn.pc \in {"fallback", "char", "notify"}
    /\ ConnectCatch(StepError(conn.pc))
    /\ UNCHANGED <<env, gattConnected, scannedDevices, connectedDevice, scan, send,
                   scanResult, sendResult, lastDisconnect, livenessFailed>>
    /\ UNCHANGED notLink

\* ---- disconnect ---------------------------------------------------------
\* stop: what stopNotifications() does if called ("ok", "throws", "rejects");
\* gattThrows: whether gatt.disconnect() throws if called.
\* disconnect without the try/catch around gatt.disconnect(): the exception
\* leaves the method before the final reset.
disconnectUnguarded(stop, gattThrows) ==
    LET live == connectedDevice # "null" /\ gattConnected[connectedDevice] IN
    [characteristic |-> "null",
     gatt |-> IF live /\ ~gattThrows
              THEN [gattConnected EXCEPT ![connectedDevice] = FALSE]
              ELSE gattConnected,
     isConnectionActive |-> IF live /\ gattThrows THEN isConnectionActive ELSE FALSE,
     connectedDevice |-> IF live /\ gattThrows THEN connectedDevice ELSE "null",
     raised |-> live /\ gattThrows]

disconnect(stop, gattThrows) ==
    LET live == connectedDevice # "null" /\ gattConnected[connectedDevice] IN
    [characteristic |-> "null",
     gatt |-> IF live /\ ~gattThrows
              THEN [gattConnected EXCEPT ![connectedDevice] = FALSE]
              ELSE gattConnected,
     isConnectionActive |-> FALSE,
     connectedDevice |-> "null",
     raised |-> FALSE]

disconnectStep(stop, gattThrows) ==
    LET d == disconnect(stop, gattThrows) IN
    /\ characteristic' = d.characteristic
    /\ gattConnected' = d.gatt
    /\ isConnectionActive' = d.isConnectionActive
    /\ connectedDevice' = d.connectedDevice
    /\ lastDisconnect' = [from |-> LinkPhase, raised |-> d.raised]
    /\ UNCHANGED <<env, scannedDevices, scan, conn, send, scanResult, connResult,
                   sendResult, livenessFailed>>

Disconnect(stop, gattThrows) ==
    /\ disconnectStep(stop, gattThrows)
    /\ UNCHANGED notLink


\* ---- sendCommand --------------------------------------------------------
\* What sendCommand does with the verdict of verifyConnection: reject, or hand
\* the bytes to writeValue.
\* sendCommand without the rejection: the bytes go to writeValue whatever the
\* verdict.
sendCommandCheckNoVerdict(v) ==
    [pc |-> "writing", wrote |-> TRUE, kind |-> "none"]

sendCommandCheck(v) ==
    IF ~v.result \/ v.char = "null"
    THEN [pc |-> "idle", wrote |-> FALSE,
          kind |-> parseBluetoothError(JsError(MsgNoDevice))]
    ELSE [pc |-> "writing", wrote |-> TRUE, kind |-> "none"]

\* ---- TextEncoder ----------------------------------------------------------
isHighSurrogate(u) == u >= 55296 /\ u <= 56319
isLowSurrogate(u) == u >= 56320 /\ u <= 57343

\* The UTF-8 bytes of one code point.
utf8(cp) ==
    IF cp < 128 THEN <<cp>>
    ELSE IF cp < 2048 THEN <<192 + (cp \div 64), 128 + (cp % 64)>>
    ELSE IF cp < 65536
         THEN <<224 + (cp \div 4096), 128 + ((cp \div 64) % 64), 128 + (cp % 64)>>
    ELSE <<240 + (cp \div 262144), 128 + ((cp \div 4096) % 64),
           128 + ((cp \div 64) % 64), 128 + (cp % 64)>>

\* new TextEncoder().encode(text): a surrogate pair is one code point, a
\* surrogate on its own is encoded as U+FFFD.
RECURSIVE encode(_)
encode(text) ==
    IF text = <<>> THEN <<>>
    ELSE LET u == Head(text) IN
         IF isHighSurrogate(u) /\ Len(text) > 1 /\ isLowSurrogate(text[2])
         THEN utf8(65536 + (u - 55296) * 1024 + (text[2] - 56320))
                  \o encode(Tail(Tail(text)))
         ELSE IF isHighSurrogate(u) \/ isLowSurrogate(u)
         THEN utf8(65533) \o encode(Tail(text))
         ELSE utf8(u) \o encode(Tail(text))

commandDataTrimmed(command) ==
    encode(SelectSeq(command, LAMBDA u : u \notin {CR, LF}) \o <<CR, LF>>)

\* What sendCommand hands to writeValue: encoder.encode(command + '\r\n').
commandData(command) == encode(command \o <<CR, LF>>)

\* The call up to its first platform await: verifyConnection runs (its result
\* is ready within the same task), then the rejection or the writeValue call.
sendCommandCall(c, command) ==
    LET v == verifyConnection
        r == sendCommandCheck(v)
    IN  /\ send[c].pc = "idle"
        /\ isConnectionActive' = v.active
        /\ characteristic' = v.char
        /\ livenessFailed' = FoundDead(v)
        /\ IF r.pc = "idle"
           THEN /\ send' = [send EXCEPT ![c] = NoSend]
                /\ sendResult' = [sendResult EXCEPT ![c] =
                                    [kind |-> r.kind, wrote |-> r.wrote,
                                     lf |-> livenessFailed]]
           ELSE /\ send' = [send EXCEPT ![c] =
                              [pc |-> "writing", cmd |-> command,
                               data |-> commandData(command), ok |-> v.result,
                               ch |-> v.char, lf |-> livenessFailed]]
                /\ sendResult' = [sendResult EXCEPT ![c] = NoResult]
        /\ UNCHANGED <<env, gattConnected, scannedDevices, connectedDevice, scan,
                       conn, scanResult, connResult, lastDisconnect>>

SendCommand(c, command) ==
    /\ sendCommandCall(c, command)
    /\ UNCHANGED notLink

\* writeValue resolves (only on a live GATT server).  With a shared session the
\* command is then saved as a 'user' record and the insert awaited (stored: the
\* store accepts it; saveCommandToDb only logs a store error).
SendWriteOk(c, stored) ==
    /\ send[c].pc = "writing"
    /\ send[c].ch # "null"
    /\ gattConnected[send[c].ch]
    /\ IF sharedSession = 0
       THEN /\ send' = [send EXCEPT ![c] = NoSend]
            /\ sendResult' = [sendResult EXCEPT ![c] =
                                [kind |-> "ok", wrote |-> TRUE, lf |-> send[c].lf]]
            /\ UNCHANGED session_commands
       ELSE /\ send' = [send EXCEPT ![c].pc = "saving"]
            /\ session_commands' =
                  IF stored /\ Len(session_commands) < MaxRecords
                  THEN Append(session_commands,
                              [session_id |-> sharedSession, sender |-> "user",
                               command |-> send[c].cmd, timestamp |-> "store"])
                  ELSE session_commands
            /\ UNCHANGED sendResult
    /\ UNCHANGED <<env, gattConnected, scannedDevices, connectedDevice, characteristic,
                   isConnectionActive, scan, conn, scanResult, connResult,
                   lastDisconnect, livenessFailed>>
    /\ UNCHANGED <<classVars, dataVars, channelVars, timerVars, supVars, sessVars, sharedSession, activeSession, uiConnected,
                   share, executedCommands, poll, push, pushEvents, sendCount,
                   connectedSession>>

\* The insert of saveCommandToDb has been answered: sendCommand resolves.
SendSaved(c) ==
    /\ send[c].pc = "saving"
    /\ send' = [send EXCEPT ![c] = NoSend]
    /\ sendResult' = [sendResult EXCEPT ![c] =
                        [kind |-> "ok", wrote |-> TRUE, lf |-> send[c].lf]]
    /\ UNCHANGED <<env, gattConnected, scannedDevices, connectedDevice, characteristic,
                   isConnectionActive, scan, conn, scanResult, connResult,
                   lastDisconnect, livenessFailed>>
    /\ UNCHANGED notLink

\* writeValue rejects: the catch block of sendCommand.
SendWriteFail(c, msg) ==
    /\ send[c].pc = "writing"
    /\ IF Includes(msg, <<"GATT", "Server", "is", "disconnected">>)
       THEN isConnectionActive' = FALSE /\ characteristic' = "null"
       ELSE UNCHANGED <<isConnectionActive, characteristic>>
    /\ send' = [send EXCEPT ![c] = NoSend]
    /\ sendResult' = [sendResult EXCEPT ![c] =
                        [kind |-> parseBluetoothError(JsError(msg)), wrote |-> TRUE,
                         lf |-> send[c].lf]]
    /\ UNCHANGED <<env, gattConnected, scannedDevices, connectedDevice, scan, conn,
                   scanResult, connResult, lastDisconnect, livenessFailed>>
    /\ UNCHANGED notLink

(***************************************************************************)
(* Session Directory (SessionService) over the store table remote_sessions *)
(***************************************************************************)
MaxSessions == 2
SessionIds == 1..MaxSessions

ActiveInStore == {id \in SessionIds : remote_sessions[id] = "active"}

NoFetch == [pc |-> "idle", by |-> "none", data |-> {}]
NoGetAll == [pc |-> "idle", created |-> {}, closed |-> {}]
NoGetAllResult ==
    [returned |-> FALSE, list |-> {}, required |-> {}, forbidden |-> {}, read |-> "none"]

\* What a getAllSessions call returns, with the sessions the caller had seen
\* created (and that are still active in the store) and had seen closed; read
\* remembers whether the call waited for a select of its own ("fresh": it was
\* answered, "error": it failed) or for none.
Returned(list, created, closed, read) ==
    [returned |-> TRUE, list |-> list,
     required |-> created \cap ActiveInStore, forbidden |-> closed, read |-> read]

\* fetchSessionsFromDb up to its await: the isFetching guard, then the select.
fetchSessionsFromDb(by) ==
    IF isFetching
    THEN UNCHANGED <<isFetching, fetch>>
    ELSE /\ isFetching' = TRUE
         /\ fetch' = [pc |-> "called", by |-> by, data |-> {}]

\* The store executes the select of the running fetch ...
FetchRead ==
    /\ fetch.pc = "called"
    /\ fetch' = [fetch EXCEPT !.pc = "read", !.data = ActiveInStore]
    /\ UNCHANGED <<remote_sessions, activeSessions, isFetching, create, close, getAll,
                   createResult, closeResult, getAllResult, createdResolved,
                   closedResolved>>
    /\ UNCHANGED notSess

\* ... or answers it with an error.
FetchReadError ==
    /\ fetch.pc = "called"
    /\ fetch' = [fetch EXCEPT !.pc = "error"]
    /\ UNCHANGED <<remote_sessions, activeSessions, isFetching, create, close, getAll,
                   createResult, closeResult, getAllResult, createdResolved,
                   closedResolved>>
    /\ UNCHANGED notSess

\* The rest of fetchSessionsFromDb once the answer is in: the cache is replaced
\* (not on error), isFetching is reset; a getAllSessions that awaited this
\* fetch returns the cache.
FetchDone ==
    /\ fetch.pc \in {"read", "error"}
    /\ activeSessions' = IF fetch.pc = "read" THEN fetch.data ELSE activeSessions
    /\ isFetching' = FALSE
    /\ fetch' = NoFetch
    /\ IF fetch.by = "getAll"
       THEN /\ getAllResult' = Returned(activeSessions', getAll.created, getAll.closed,
                                        IF fetch.pc = "read" THEN "fresh" ELSE "error")
            /\ getAll' = NoGetAll
       ELSE UNCHANGED <<getAll, getAllResult>>
    /\ UNCHANGED <<remote_sessions, create, close, createResult, closeResult,
                   createdResolved, closedResolved>>
    /\ UNCHANGED notSess

\* getAllSessions: awaits fetchSessionsFromDb, then returns the cache.
GetAllSessions ==
    /\ getAll.pc = "idle"
    /\ fetchSessionsFromDb("getAll")
    /\ IF isFetching
       THEN /\ getAllResult' = Returned(activeSessions, createdResolved, closedResolved,
                                        "none")
            /\ UNCHANGED getAll
       ELSE /\ getAll' = [pc |-> "waiting", created |-> createdResolved,
                          closed |-> closedResolved]
            /\ getAllResult' = NoGetAllResult
    /\ UNCHANGED <<remote_sessions, activeSessions, create, close, createResult,
                   closeResult, createdResolved, closedResolved>>
    /\ UNCHANGED notSess

\* forceRefreshFromDb (manual refresh, SupportView mount).
ForceRefreshFromDb ==
    /\ ~isFetching
    /\ fetchSessionsFromDb("refresh")
    /\ UNCHANGED <<remote_sessions, activeSessions, create, close, getAll,
                   createResult, closeResult, getAllResult, createdResolved,
                   closedResolved>>
    /\ UNCHANGED notSess

\* updateSessionsInDb: update({last_active: now}) of the row of every cached
\* session; is_active of no row is written.
updateSessionsInDb == [id \in SessionIds |-> remote_sessions[id]]

\* The 10 s interval of the constructor: with a non-empty cache it refreshes
\* last_active and notifies, else it fetches.
IntervalTick ==
    /\ intervals.sessions > 0
    /\ IF activeSessions # {}
       THEN /\ remote_sessions' = updateSessionsInDb
            /\ UNCHANGED <<isFetching, fetch>>
       ELSE /\ ~isFetching
            /\ fetchSessionsFromDb("timer")
            /\ UNCHANGED remote_sessions
    /\ UNCHANGED <<activeSessions, create, close, getAll,
                   createResult, closeResult, getAllResult, createdResolved,
                   closedResolved>>
    /\ UNCHANGED notSess

NoCreateResult == [kind |-> "none", id |-> 0, notified |-> FALSE]

\* createSession: the insert reaches the store, which assigns the id ...
createSessionInsert ==
    /\ create.pc = "idle"
    /\ \E id \in SessionIds :
          /\ remote_sessions[id] = "none"
          /\ \A j \in SessionIds : j < id => remote_sessions[j] # "none"
          /\ remote_sessions' = [remote_sessions EXCEPT ![id] = "active"]
          /\ create' = [pc |-> "inserted", id |-> id]
    /\ createResult' = NoCreateResult

\* ... or the store answers with an error or no row.
createSessionError ==
    /\ create.pc = "idle"
    /\ create' = [pc |-> "failed", id |-> 0]
    /\ createResult' = NoCreateResult
    /\ UNCHANGED remote_sessions

\* A createSession that answers a failed insert with a session made locally.
createSessionDoneLocally ==
    /\ create.pc # "idle"
    /\ LET id == IF create.pc = "inserted" THEN create.id ELSE MaxSessions
       IN /\ activeSessions' = activeSessions \cup {id}
          /\ createResult' = [kind |-> "session", id |-> id, notified |-> TRUE]
          /\ createdResolved' = createdResolved \cup {id}
    /\ create' = [pc |-> "idle", id |-> 0]

\* The rest of createSession once the answer is in (notified: it has set the
\* timer that calls notifyListeners).
createSessionDone ==
    /\ create.pc # "idle"
    /\ IF create.pc = "inserted"
       THEN /\ activeSessions' = activeSessions \cup {create.id}
            /\ createResult' = [kind |-> "session", id |-> create.id, notified |-> TRUE]
            /\ createdResolved' = createdResolved \cup {create.id}
       ELSE /\ createResult' = [kind |-> "error", id |-> 0, notified |-> FALSE]
            /\ UNCHANGED <<activeSessions, createdResolved>>
    /\ create' = [pc |-> "idle", id |-> 0]

CreateSession ==
    /\ createSessionInsert \/ createSessionError
    /\ UNCHANGED <<activeSessions, isFetching, fetch, close, getAll, closeResult,
                   getAllResult, createdResolved, closedResolved>>
    /\ UNCHANGED notSess

CreateSessionDone ==
    /\ createSessionDone
    /\ UNCHANGED <<remote_sessions, isFetching, fetch, close, getAll, closeResult,
                   getAllResult, closedResolved>>
    /\ UNCHANGED notSess

\* The ids the page can pass to closeSession: those it was given by
\* createSession (stop sharing) or sees in its list (delete).
KnownSessions == activeSessions \cup createdResolved

\* close.existed and closeResult.existed remember whether the store held an
\* active record of the id when closeSession was called.
NoClose == [pc |-> "idle", id |-> 0, existed |-> FALSE]
NoCloseResult == [kind |-> "none", id |-> 0, value |-> FALSE, existed |-> FALSE]

\* closeSession: the update reaches the store (storeError: it answers with an error).
\* closeSession with a delete of the row in place of the update.
closeSessionUpdateDeletes(id, storeError) ==
    /\ close.pc = "idle"
    /\ closeResult' = NoCloseResult
    /\ IF storeError
       THEN /\ close' = [pc |-> "failed", id |-> id,
                         existed |-> remote_sessions[id] = "active"]
            /\ UNCHANGED remote_sessions
       ELSE /\ close' = [pc |-> "updated", id |-> id,
                         existed |-> remote_sessions[id] = "active"]
            /\ remote_sessions' = [remote_sessions EXCEPT ![id] = "none"]

\* closeSession up to its await: update({is_active: false}).eq('id', id), which
\* the store applies or rejects.
closeSessionUpdate(id, storeError) ==
    /\ close.pc = "idle"
    /\ closeResult' = NoCloseResult
    /\ IF storeError
       THEN /\ close' = [pc |-> "failed", id |-> id,
                         existed |-> remote_sessions[id] = "active"]
            /\ UNCHANGED remote_sessions
       ELSE /\ close' = [pc |-> "updated", id |-> id,
                         existed |-> remote_sessions[id] = "active"]
            /\ remote_sessions' =
                  [remote_sessions EXCEPT ![id] = IF @ = "none" THEN @ ELSE "inactive"]

\* The rest of closeSession once the answer is in.
closeSessionDone ==
    /\ close.pc # "idle"
    /\ IF close.pc = "updated"
       THEN /\ closeResult' = [kind |-> "returned", id |-> close.id,
                                value |-> close.id \in activeSessions,
                                existed |-> close.existed]
            /\ activeSessions' = activeSessions \ {close.id}
            /\ closedResolved' = closedResolved \cup {close.id}
       ELSE /\ closeResult' = [kind |-> "failed", id |-> close.id, value |-> FALSE,
                                existed |-> close.existed]
            /\ UNCHANGED <<activeSessions, closedResolved>>
    /\ close' = NoClose

CloseSession(id, storeError) ==
    /\ closeSessionUpdate(id, storeError)
    /\ UNCHANGED <<activeSessions, isFetching, fetch, create, getAll, createResult,
                   getAllResult, createdResolved, closedResolved>>
    /\ UNCHANGED notSess

CloseSessionDone ==
    /\ closeSessionDone
    /\ UNCHANGED <<remote_sessions, isFetching, fetch, create, getAll, createResult,
                   getAllResult, createdResolved>>
    /\ UNCHANGED notSess

(***************************************************************************)
(* Relay Channel: store table session_commands, the device page            *)
(* (UserDeviceView) and the support page (SupportView)                     *)
(***************************************************************************)
SupportCommands == {AT}
\* Sessions the device page shares one after the other.
MaxShares == 1
Created == {id \in SessionIds : remote_sessions[id] # "none"}

NoPoll == [pc |-> "idle", sid |-> 0, n |-> 0, i |-> 0]
NoPush == [pc |-> "idle", rid |-> 0, dev |-> "null"]

Bump(r) == [sendCount EXCEPT ![r] = IF @ < MaxCount THEN @ + 1 ELSE @]

\* The key under which refreshCommands remembers an executed record: cmd.id.
\* The key taken from the command text instead.
commandKeyByText(j) == session_commands[j].command
commandKey(j) == j

\* The caller's await of sendCommand has returned: its outcome is consumed.
settled(c) ==
    /\ sendResult' = [sendResult EXCEPT ![c] = NoResult]
    /\ UNCHANGED <<env, gattConnected, scannedDevices, connectedDevice, characteristic,
                   isConnectionActive, scan, conn, send, scanResult, connResult,
                   lastDisconnect, livenessFailed>>

\* A new refreshCommands call takes the lowest free slot.
IdlePolls == {p \in PollIds : poll[p].pc = "idle"}
FreePoll == CHOOSE p \in IdlePolls : \A q \in IdlePolls : p <= q

\* select ... eq('session_id', sid) order by timestamp: the records are kept
\* in the order of their timestamps.
SessionRecords(sid) == SelectSeq(session_commands, LAMBDA r : r.session_id = sid)

\* refreshCommands up to the select: the rows the store answers with are the
\* first n of the table (read: the store answers; else an error, and the call
\* returns).
refreshCommands(sid, read) ==
    IF read
    THEN poll' = [poll EXCEPT ![FreePoll] =
                    [pc |-> "loop", sid |-> sid, n |-> Len(session_commands), i |-> 0]]
    ELSE UNCHANGED poll

\* The support records of the answer, after position i, not yet executed.
ToExecute(p, i, executed) ==
    {j \in (i + 1)..poll[p].n :
        /\ session_commands[j].session_id = poll[p].sid
        /\ session_commands[j].sender = "support"
        /\ commandKey(j) \notin executed}

\* The 1 s interval (and the first call of the effect) while a session is active.
RefreshTick(read) ==
    /\ intervals.relay > 0
    /\ activeSession # 0
    /\ IdlePolls # {}
    /\ refreshCommands(activeSession, read)
    /\ UNCHANGED <<sharedSession, activeSession, uiConnected, share, session_commands,
                   executedCommands, push, pushEvents, sendCount, connectedSession>>
    /\ UNCHANGED <<linkVars, classVars, dataVars, channelVars, timerVars, supVars, sessVars>>

\* The loop of refreshCommands between two awaits: after a send that resolved
\* the record's key is added; the next support record whose key is not in the
\* set is handed to sendCommand; with none left the call returns.
RefreshLoop(p) ==
    LET c == PollCaller(p)
        sent == poll[p].pc = "sending"
        executed == IF sent /\ sendResult[c].kind = "ok"
                    THEN executedCommands \cup {commandKey(poll[p].i)}
                    ELSE executedCommands
        todo == ToExecute(p, poll[p].i, executed)
    IN  /\ \/ poll[p].pc = "loop"
           \/ sent /\ send[c].pc = "idle"
        /\ executedCommands' = executed
        /\ IF todo = {}
           THEN /\ poll' = [poll EXCEPT ![p] = NoPoll]
                /\ settled(c)
                /\ UNCHANGED sendCount
           ELSE LET j == CHOOSE x \in todo : \A y \in todo : x <= y IN
                /\ poll' = [poll EXCEPT ![p].pc = "sending", ![p].i = j]
                /\ sendCommandCall(c, session_commands[j].command)
                /\ sendCount' = Bump(j)
        /\ UNCHANGED <<sharedSession, activeSession, uiConnected, share,
                       session_commands, push, pushEvents, connectedSession>>
        /\ UNCHANGED <<classVars, dataVars, channelVars, timerVars, supVars, sessVars>>

\* The INSERT handler starts on a delivered event: its first block calls sendCommand.
PushDeliver(r) ==
    /\ r \in pushEvents
    /\ push.pc = "idle"
    /\ pushEvents' = pushEvents \ {r}
    /\ push' = [pc |-> "block1", rid |-> r, dev |-> "null"]
    /\ sendCommandCall("push", session_commands[r].command)
    /\ sendCount' = Bump(r)
    /\ UNCHANGED <<sharedSession, activeSession, uiConnected, share, session_commands,
                   executedCommands, poll, connectedSession>>
    /\ UNCHANGED <<classVars, dataVars, channelVars, timerVars, supVars, sessVars>>

\* The handler after its first or second sendCommand settled (a rejection is
\* caught and shown): the second block calls sendCommand again; the third
\* calls it once more if isConnected(), else gives up and refreshes.
PushNext(read) ==
    LET r == push.rid IN
    /\ push.pc \in {"block1", "block2"}
    /\ send["push"].pc = "idle"
    /\ IF push.pc = "block1" \/ (isConnected /\ connectedDevice # "null")
       THEN /\ push' = [pc |-> IF push.pc = "block1" THEN "block2" ELSE "block3",
                        rid |-> r, dev |-> connectedDevice]
            /\ sendCommandCall("push", session_commands[r].command)
            /\ sendCount' = Bump(r)
            /\ UNCHANGED poll
       ELSE /\ IdlePolls # {}
            /\ push' = NoPush
            /\ refreshCommands(session_commands[r].session_id, read)
            /\ settled("push")
            /\ UNCHANGED sendCount
    /\ UNCHANGED <<sharedSession, activeSession, uiConnected, share, session_commands,
                   executedCommands, pushEvents, connectedSession>>
    /\ UNCHANGED <<classVars, dataVars, channelVars, timerVars, supVars, sessVars>>

\* The handler after its third sendCommand settled: on success it refreshes,
\* on rejection it turns to the direct write on the device's GATT server.
PushThird(read) ==
    /\ push.pc = "block3"
    /\ send["push"].pc = "idle"
    /\ IF sendResult["push"].kind = "ok"
       THEN /\ IdlePolls # {}
            /\ push' = NoPush
            /\ refreshCommands(session_commands[push.rid].session_id, read)
       ELSE /\ push' = [push EXCEPT !.pc = "direct"]
            /\ UNCHANGED poll
    /\ settled("push")
    /\ UNCHANGED <<sharedSession, activeSession, uiConnected, share, session_commands,
                   executedCommands, pushEvents, sendCount, connectedSession>>
    /\ UNCHANGED <<classVars, dataVars, channelVars, timerVars, supVars, sessVars>>

\* The direct write: gatt.connect(), getPrimaryService, getCharacteristic and
\* writeValue on the device object (gatt: connect() resolves; a later
\* rejection is caught like one of connect()); then the refresh.
PushDirect(gatt, read) ==
    /\ push.pc = "direct"
    /\ IdlePolls # {}
    /\ gattConnected' = IF gatt THEN [gattConnected EXCEPT ![push.dev] = TRUE]
                        ELSE gattConnected
    /\ push' = NoPush
    /\ refreshCommands(session_commands[push.rid].session_id, read)
    /\ UNCHANGED <<env, scannedDevices, connectedDevice, characteristic,
                   isConnectionActive, scan, conn, send, scanResult, connResult,
                   sendResult, lastDisconnect, livenessFailed>>
    /\ UNCHANGED <<sharedSession, activeSession, uiConnected, share, session_commands,
                   executedCommands, pushEvents, sendCount, connectedSession>>
    /\ UNCHANGED <<classVars, dataVars, channelVars, timerVars, supVars, sessVars>>

\* ---- interval timers -------------------------------------------------------
\* intervals counts, per owner, the timers made by setInterval and not yet
\* cleared; the count stops at MaxTimers.
MaxTimers == 2
NoIntervals == [liveness |-> 0, relay |-> 0, sessions |-> 1, supRelay |-> 0,
                supSessions |-> 1]

setInterval(n) == IF n < MaxTimers THEN n + 1 ELSE n
clearInterval(n) == IF n > 0 THEN n - 1 ELSE 0

\* The liveness effect of the device page, deps [isConnected]: when the value
\* changes the cleanup of the last run clears its timer (it set one only if
\* the page was connected), then the effect sets one if the page is connected.
connectionEffect(n, was, now) ==
    IF was = now THEN n
    ELSE LET cleaned == IF was THEN clearInterval(n) ELSE n
         IN  IF now THEN setInterval(cleaned) ELSE cleaned

\* The relay effect without the clearInterval of its cleanup.
relayEffectNoCleanup(n, was, now) ==
    IF now # 0 THEN setInterval(n) ELSE n

\* The relay effect of either page, deps [activeSession] / [connectedSession]:
\* the cleanup returned for a session clears refreshIntervalRef.current, then
\* the effect sets the 1 s interval if there is a session.
relayEffect(n, was, now) ==
    LET cleaned == IF was # 0 THEN clearInterval(n) ELSE n
    IN  IF now # 0 THEN setInterval(cleaned) ELSE cleaned

\* The same effect of the support page for its realtime channel: the cleanup
\* removes the channel, and for a session a new one is subscribed, which gets
\* the INSERT events of the records stored from then on.
channelEffect(ch, was, now) ==
    IF was = now THEN ch
    ELSE IF now # 0 THEN Len(session_commands) ELSE 0

\* ---- the device page -----------------------------------------------------
\* The page's connectToDevice: the Device Link step, then setIsConnected(true)
\* once the call has resolved.
UiConnectStepOk ==
    /\ connectStepOk
    /\ uiConnected' = IF conn.pc = "notify" THEN TRUE ELSE uiConnected
    /\ intervals' = [intervals EXCEPT !.liveness =
                        connectionEffect(@, uiConnected, conn.pc = "notify" \/ uiConnected)]
    /\ UNCHANGED <<sharedSession, activeSession, share, session_commands,
                   executedCommands, poll, push, pushEvents, sendCount,
                   connectedSession>>
    /\ UNCHANGED <<classVars, dataVars, channelVars, supVars, sessVars>>

\* A tick of the 5 s liveness timer of the page (set while it showed
\* Connected): a dead link makes the page show Disconnected.
UiLivenessTick ==
    LET now == IF ~verifyConnection.result THEN FALSE ELSE uiConnected IN
    /\ intervals.liveness > 0
    /\ verifyConnectionStep
    /\ uiConnected' = now
    /\ intervals' = [intervals EXCEPT !.liveness = connectionEffect(@, uiConnected, now)]
    /\ UNCHANGED <<sharedSession, activeSession, share, session_commands,
                   executedCommands, poll, push, pushEvents, sendCount,
                   connectedSession>>
    /\ UNCHANGED <<classVars, dataVars, channelVars, supVars, sessVars>>

\* disconnectDevice: the link is disconnected and the page forgets its session;
\* the effect's cleanup removes the subscription and the interval.
UiDisconnectDevice(stop, gattThrows) ==
    /\ uiConnected
    /\ disconnectStep(stop, gattThrows)
    /\ uiConnected' = FALSE
    /\ activeSession' = 0
    /\ pushEvents' = {}
    /\ intervals' = [intervals EXCEPT
                        !.liveness = connectionEffect(@, uiConnected, FALSE),
                        !.relay = relayEffect(@, activeSession, 0)]
    /\ UNCHANGED <<sharedSession, share, session_commands, executedCommands, poll,
                   push, sendCount, connectedSession>>
    /\ UNCHANGED <<classVars, dataVars, channelVars, supVars, sessVars>>

\* The page is unmounted (the user leaves its tab) with none of its operations
\* pending: React runs the cleanup of both effects and drops the state of the
\* component; the services and a running refreshCommands live on.
UiUnmount ==
    /\ share = "idle"
    /\ conn.pc = "idle"
    /\ uiConnected' = FALSE
    /\ activeSession' = 0
    /\ pushEvents' = {}
    /\ intervals' = [intervals EXCEPT
                        !.liveness = IF uiConnected THEN clearInterval(@) ELSE @,
                        !.relay = IF activeSession # 0 THEN clearInterval(@) ELSE @]
    /\ UNCHANGED <<sharedSession, share, session_commands, executedCommands, poll,
                   push, sendCount, connectedSession>>
    /\ UNCHANGED <<linkVars, classVars, dataVars, channelVars, supVars, sessVars>>

\* onShareSessionSubmit up to the await of createSession (the Share button is
\* shown while the page is connected and has no active session).
onShareSessionSubmit ==
    /\ uiConnected
    /\ activeSession = 0
    /\ share = "idle"
    /\ createSessionInsert \/ createSessionError
    /\ share' = "creating"
    /\ UNCHANGED <<activeSessions, isFetching, fetch, close, getAll, closeResult,
                   getAllResult, createdResolved, closedResolved>>
    /\ UNCHANGED <<sharedSession, activeSession, uiConnected, session_commands,
                   executedCommands, poll, push, pushEvents, sendCount,
                   connectedSession>>
    /\ UNCHANGED <<linkVars, classVars, dataVars, channelVars, timerVars, supVars>>

\* The same while the store holds fewer than MaxShares sessions.
OnShareSessionSubmit ==
    /\ Cardinality(Created) < MaxShares
    /\ onShareSessionSubmit

\* The rest of onShareSessionSubmit: shareDeviceSession (throws without a
\* connected device; its getAllSessions is not awaited), setActiveSession.
ShareSubmitted ==
    /\ share = "creating"
    /\ create.pc = "idle"
    /\ share' = "idle"
    /\ IF createResult.kind = "error" \/ connectedDevice = "null"
       THEN UNCHANGED <<sharedSession, activeSession, isFetching, fetch, intervals>>
       ELSE /\ sharedSession' = createResult.id
            /\ activeSession' = createResult.id
            /\ intervals' = [intervals EXCEPT
                                !.relay = relayEffect(@, activeSession, createResult.id)]
            /\ fetchSessionsFromDb("share")
    /\ UNCHANGED <<remote_sessions, activeSessions, create, close, getAll,
                   createResult, closeResult, getAllResult, createdResolved,
                   closedResolved>>
    /\ UNCHANGED <<uiConnected, session_commands, executedCommands, poll, push,
                   pushEvents, sendCount, connectedSession>>
    /\ UNCHANGED <<linkVars, classVars, dataVars, channelVars, supVars>>

\* stopSharingSession of the page up to the await of closeSession.
StopSharingSession(storeError) ==
    /\ uiConnected
    /\ activeSession # 0
    /\ share = "idle"
    /\ closeSessionUpdate(activeSession, storeError)
    /\ share' = "closing"
    /\ UNCHANGED <<activeSessions, isFetching, fetch, create, getAll, createResult,
                   getAllResult, createdResolved, closedResolved>>
    /\ UNCHANGED <<sharedSession, activeSession, uiConnected, session_commands,
                   executedCommands, poll, push, pushEvents, sendCount,
                   connectedSession>>
    /\ UNCHANGED <<linkVars, classVars, dataVars, channelVars, timerVars, supVars>>

\* The rest of it: bluetoothService.stopSharingSession (a second closeSession
\* and a getAllSessions, neither awaited), setActiveSession(null) and the
\* cleanup of the effect.
SharingStopped(storeError) ==
    /\ share = "closing"
    /\ close.pc = "idle"
    /\ share' = "idle"
    /\ IF sharedSession # 0
       THEN /\ closeSessionUpdate(sharedSession, storeError)
            /\ fetchSessionsFromDb("stop")
       ELSE UNCHANGED <<remote_sessions, close, closeResult, isFetching, fetch>>
    /\ sharedSession' = 0
    /\ activeSession' = 0
    /\ pushEvents' = {}
    /\ intervals' = [intervals EXCEPT !.relay = relayEffect(@, activeSession, 0)]
    /\ UNCHANGED <<activeSessions, create, getAll, createResult, getAllResult,
                   createdResolved, closedResolved>>
    /\ UNCHANGED <<uiConnected, session_commands, executedCommands, poll, push,
                   sendCount, connectedSession>>
    /\ UNCHANGED <<linkVars, classVars, dataVars, channelVars, supVars>>

\* ---- the support page ----------------------------------------------------
\* What the device page sees of the support page: it views a session, leaves
\* it and inserts commands.  Its list, transcript and channel are followed by
\* the actions of "The support page with its own SessionService" below.
\* connectToSession: getSession finds the session, setConnectedSession.
ConnectToSession(sid) ==
    /\ connectedSession = 0
    /\ sid \in ActiveInStore
    /\ connectedSession' = sid
    /\ intervals' = [intervals EXCEPT !.supRelay = relayEffect(@, connectedSession, sid)]
    /\ UNCHANGED <<sharedSession, activeSession, uiConnected, share, session_commands,
                   executedCommands, poll, push, pushEvents, sendCount>>
    /\ UNCHANGED <<linkVars, classVars, dataVars, channelVars, supVars, sessVars>>

DisconnectSession ==
    /\ connectedSession # 0
    /\ connectedSession' = 0
    /\ intervals' = [intervals EXCEPT !.supRelay = relayEffect(@, connectedSession, 0)]
    /\ UNCHANGED <<sharedSession, activeSession, uiConnected, share, session_commands,
                   executedCommands, poll, push, pushEvents, sendCount>>
    /\ UNCHANGED <<linkVars, classVars, dataVars, channelVars, supVars, sessVars>>

\* sendCommand of the support page: the insert of a 'support' record.  The store
\* emits an INSERT event to a subscription of that session (notified: the
\* event is not lost on the way).
SupportSendCommand(command, notified) ==
    /\ connectedSession # 0
    /\ Len(session_commands) < MaxRecords
    /\ session_commands' =
          Append(session_commands,
                 [session_id |-> connectedSession, sender |-> "support",
                  command |-> command, timestamp |-> "client"])
    /\ pushEvents' = IF notified /\ activeSession = connectedSession
                     THEN pushEvents \cup {Len(session_commands) + 1}
                     ELSE pushEvents
    /\ UNCHANGED <<sharedSession, activeSession, uiConnected, share,
                   executedCommands, poll, push, sendCount, connectedSession>>
    /\ UNCHANGED <<linkVars, classVars, dataVars, channelVars, timerVars, supVars, sessVars>>

(***************************************************************************)
(* The support page with its own SessionService (another browser)          *)
(***************************************************************************)
MaxNotes == 2

NoSupPoll == [pc |-> "idle", sid |-> 0, data |-> <<>>]

\* notifyListeners: the list is taken now and handed to a zero-delay timer,
\* which will call the listeners registered when it fires (viewed -1); timers
\* fire in the order they were set.
notifyListeners(notes, sessions) ==
    Append(notes, [sessions |-> sessions, viewed |-> -1, removed |-> FALSE])

\* addSessionsListener: the callback is registered, and a zero-delay timer is
\* set that will call this very callback with the list taken now.  The
\* callback is the handleSessionsUpdate of one run of the effect; viewed is
\* the connectedSession it has captured.
addSessionsListener(notes, sessions, viewed) ==
    Append(notes, [sessions |-> sessions, viewed |-> viewed, removed |-> FALSE])

\* removeSessionsListener: the callback leaves the list of listeners; the
\* timers that hold it are not cleared (removed marks them).
removeSessionsListener(notes) ==
    [i \in 1..Len(notes) |->
        IF notes[i].viewed # -1 THEN [notes[i] EXCEPT !.removed = TRUE] ELSE notes[i]]

\* fetchSessionsFromDb of the support page's service, up to its await.
supFetchSessionsFromDb(fetching, f) ==
    IF fetching THEN [isFetching |-> fetching, fetch |-> f]
    ELSE [isFetching |-> TRUE, fetch |-> [pc |-> "called", data |-> {}]]

\* The first effect of SupportView, run again after connectedSession changed
\* to now: the cleanup of the last run (removeSessionsListener), then
\* addSessionsListener with the new callback and forceRefreshFromDb.
sessionsEffect(notes, cache, now) ==
    /\ supNotes' = addSessionsListener(removeSessionsListener(notes), cache, now)
    /\ LET r == supFetchSessionsFromDb(supFetching, supFetch)
       IN /\ supFetching' = r.isFetching
          /\ supFetch' = r.fetch

\* The select of the running fetch is answered by the store.
SupFetchRead ==
    /\ supFetch.pc = "called"
    /\ supFetch' = [pc |-> "read", data |-> ActiveInStore]
    /\ UNCHANGED <<supSessions, supFetching, supNotes, supOutput, supToast, supList,
                   supPoll>>
    /\ UNCHANGED <<linkVars, classVars, dataVars, channelVars, timerVars, sessVars, relayVars>>

\* The select fails: the cache is left alone, finally resets isFetching.
SupFetchReadError ==
    /\ supFetch.pc = "called"
    /\ supFetch' = [pc |-> "idle", data |-> {}]
    /\ supFetching' = FALSE
    /\ UNCHANGED <<supSessions, supNotes, supOutput, supToast, supList, supPoll>>
    /\ UNCHANGED <<linkVars, classVars, dataVars, channelVars, timerVars, sessVars, relayVars>>

\* The answer arrives: the cache is replaced and the listeners are notified.
SupFetchDone ==
    /\ supFetch.pc = "read"
    /\ Len(supNotes) < MaxNotes
    /\ supSessions' = supFetch.data
    /\ supNotes' = notifyListeners(supNotes, supFetch.data)
    /\ supFetch' = [pc |-> "idle", data |-> {}]
    /\ supFetching' = FALSE
    /\ UNCHANGED <<supOutput, supToast, supList, supPoll>>
    /\ UNCHANGED <<linkVars, classVars, dataVars, channelVars, timerVars, sessVars, relayVars>>

\* The 10 s timer of the service: with a cache that is not empty it writes
\* last_active of the cached sessions and notifies with the cache as it is;
\* only with an empty cache does it read the store.
SupIntervalTick ==
    /\ intervals.supSessions > 0
    /\ IF supSessions # {}
       THEN /\ Len(supNotes) < MaxNotes
            /\ supNotes' = notifyListeners(supNotes, supSessions)
            /\ UNCHANGED <<supFetching, supFetch>>
       ELSE /\ ~supFetching
            /\ LET r == supFetchSessionsFromDb(supFetching, supFetch)
               IN /\ supFetching' = r.isFetching
                  /\ supFetch' = r.fetch
            /\ UNCHANGED supNotes
    /\ UNCHANGED <<supSessions, supOutput, supToast, supList, supPoll>>
    /\ UNCHANGED <<linkVars, classVars, dataVars, channelVars, timerVars, sessVars, relayVars>>

\* refreshSessions: the Refresh button of the page.
SupRefreshSessions ==
    /\ ~supFetching
    /\ LET r == supFetchSessionsFromDb(supFetching, supFetch)
       IN /\ supFetching' = r.isFetching
          /\ supFetch' = r.fetch
    /\ supToast' = "Refreshed Sessions"
    /\ UNCHANGED <<supSessions, supNotes, supOutput, supList, supPoll>>
    /\ UNCHANGED <<linkVars, classVars, dataVars, channelVars, timerVars, sessVars, relayVars>>

\* handleSessionsUpdate: what the listener of the page sets.
handleSessionsUpdate(sessions, viewed, output, toast) ==
    IF viewed # 0 /\ viewed \notin sessions
    THEN [activeSessions |-> sessions, connectedSession |-> 0,
          serialOutput |-> <<>>, toast |-> "Session Ended"]
    ELSE [activeSessions |-> sessions, connectedSession |-> viewed,
          serialOutput |-> output, toast |-> toast]

\* The oldest timer fires.  One of notifyListeners calls the registered
\* listener, whose captured connectedSession is the page's; one of
\* addSessionsListener calls the callback it holds.  A callback that finds its
\* session missing calls setConnectedSession(null); when that changes
\* connectedSession the effects of the page run again.
SupListenerCall ==
    /\ supNotes # <<>>
    /\ LET note == Head(supNotes)
           viewed == IF note.viewed = -1 THEN connectedSession ELSE note.viewed
           r == handleSessionsUpdate(note.sessions, viewed, supOutput, supToast)
           now == IF r.connectedSession # viewed THEN 0 ELSE connectedSession
       IN /\ supList' = r.activeSessions
          /\ connectedSession' = now
          /\ intervals' = [intervals EXCEPT
                              !.supRelay = relayEffect(@, connectedSession, now)]
          /\ channel' = channelEffect(channel, connectedSession, now)
          /\ supOutput' = r.serialOutput
          /\ supToast' = r.toast
          /\ IF now # connectedSession
             THEN LET f == supFetchSessionsFromDb(supFetching, supFetch)
                  IN /\ supNotes' = addSessionsListener(
                                        removeSessionsListener(Tail(supNotes)),
                                        supSessions, now)
                     /\ supFetching' = f.isFetching
                     /\ supFetch' = f.fetch
             ELSE /\ supNotes' = Tail(supNotes)
                  /\ UNCHANGED <<supFetching, supFetch>>
    /\ UNCHANGED <<supSessions, supPoll>>
    /\ UNCHANGED <<sharedSession, activeSession, uiConnected, share, session_commands,
                   executedCommands, poll, push, pushEvents, sendCount>>
    /\ UNCHANGED <<linkVars, classVars, dataVars, sessVars>>

\* getSession: the cache answers first; otherwise the store is asked for an
\* active record of that id, which is then added to the cache.
getSession(cache, id) ==
    IF id \in cache THEN [found |-> TRUE, cache |-> cache]
    ELSE IF id \in ActiveInStore THEN [found |-> TRUE, cache |-> cache \cup {id}]
    ELSE [found |-> FALSE, cache |-> cache]

\* connectToSession of the page, with the effects its state change starts.
SupConnectToSession(sid) ==
    /\ connectedSession = 0
    /\ remote_sessions[sid] # "none"
    /\ Len(supNotes) < MaxNotes
    /\ LET g == getSession(supSessions, sid)
       IN /\ supSessions' = g.cache
          /\ IF g.found
             THEN /\ connectedSession' = sid
                  /\ intervals' = [intervals EXCEPT
                                      !.supRelay = relayEffect(@, connectedSession, sid)]
                  /\ channel' = channelEffect(channel, connectedSession, sid)
                  /\ supOutput' = <<>>
                  /\ supToast' = "Connected to Session"
                  /\ sessionsEffect(supNotes, g.cache, sid)
             ELSE /\ supToast' = "Session not found"
                  /\ UNCHANGED <<connectedSession, supOutput, supNotes, supFetching,
                                 supFetch, intervals, channel>>
    /\ UNCHANGED <<supList, supPoll>>
    /\ UNCHANGED <<sharedSession, activeSession, uiConnected, share, session_commands,
                   executedCommands, poll, push, pushEvents, sendCount>>
    /\ UNCHANGED <<linkVars, classVars, dataVars, sessVars>>

\* disconnectSession of the page, with the effects its state change starts.
SupDisconnectSession ==
    /\ connectedSession # 0
    /\ Len(supNotes) < MaxNotes
    /\ connectedSession' = 0
    /\ intervals' = [intervals EXCEPT !.supRelay = relayEffect(@, connectedSession, 0)]
    /\ channel' = channelEffect(channel, connectedSession, 0)
    /\ supOutput' = <<>>
    /\ supToast' = "Disconnected"
    /\ sessionsEffect(supNotes, supSessions, 0)
    /\ UNCHANGED <<supSessions, supList, supPoll>>
    /\ UNCHANGED <<sharedSession, activeSession, uiConnected, share, session_commands,
                   executedCommands, poll, push, pushEvents, sendCount>>
    /\ UNCHANGED <<linkVars, classVars, dataVars, sessVars>>

\* ---- notifications of the device -------------------------------------------
\* Texts the device sends, as the bytes of the notification: "OK", "X OK",
\* "=1" and the byte 0xFF, which is no UTF-8.
MaxData == 2
RawData == {<<79, 75>>, <<88, 32, 79, 75>>, <<61, 49>>, <<255>>}

\* new TextDecoder('utf-8').decode on bytes that are ASCII or 0xFF: an ASCII
\* byte is its character, 0xFF is replaced by U+FFFD.
decode(bytes) == [i \in 1..Len(bytes) |-> IF bytes[i] < 128 THEN bytes[i] ELSE 65533]

\* String.replace with a global pattern that is a fixed text.
RECURSIVE replaceAll(_, _, _)
replaceAll(text, pattern, by) ==
    IF Len(text) < Len(pattern) THEN text
    ELSE IF SubSeq(text, 1, Len(pattern)) = pattern
    THEN by \o replaceAll(SubSeq(text, Len(pattern) + 1, Len(text)), pattern, by)
    ELSE <<Head(text)>> \o replaceAll(Tail(text), pattern, by)

\* replace(/(\s)AT\+/g, '\nAT+'), one white-space character after the other.
WhiteSpace == <<9, 10, 11, 12, 13, 32>>
RECURSIVE breakBeforeAT(_, _)
breakBeforeAT(text, k) ==
    IF k > Len(WhiteSpace) THEN text
    ELSE breakBeforeAT(replaceAll(text, <<WhiteSpace[k], 65, 84, 43>>, <<LF, 65, 84, 43>>),
                       k + 1)

\* replace(/^\n+/, '')
RECURSIVE stripLeadingNewlines(_)
stripLeadingNewlines(text) ==
    IF text # <<>> /\ Head(text) = LF THEN stripLeadingNewlines(Tail(text)) ELSE text

\* replace(/\n{3,}/g, '\n\n')
RECURSIVE collapseNewlines(_)
collapseNewlines(text) ==
    IF text = <<>> THEN <<>>
    ELSE IF Len(text) >= 3 /\ text[1] = LF /\ text[2] = LF /\ text[3] = LF
    THEN <<LF, LF>> \o collapseNewlines(stripLeadingNewlines(text))
    ELSE <<Head(text)>> \o collapseNewlines(Tail(text))

\* replace(/\n(.)\n/g, '\n$1'); the dot matches no line terminator.
LineTerminators == {LF, CR, 8232, 8233}
RECURSIVE joinSingleCharacters(_)
joinSingleCharacters(text) ==
    IF text = <<>> THEN <<>>
    ELSE IF Len(text) >= 3 /\ text[1] = LF /\ text[2] \notin LineTerminators
            /\ text[3] = LF
    THEN <<LF, text[2]>> \o joinSingleCharacters(SubSeq(text, 4, Len(text)))
    ELSE <<Head(text)>> \o joinSingleCharacters(Tail(text))

formatBluetoothData(data) ==
    LET at == replaceAll(data, <<65, 84, 43>>, <<LF, 65, 84, 43>>)
        ok == replaceAll(at, <<79, 75>>, <<LF, LF, 79, 75>>)
        params == breakBeforeAT(ok, 1)
        equals == replaceAll(params, <<61>>, <<61, LF>>)
        spaces == replaceAll(equals, <<32>>, <<32, LF>>)
        errors == replaceAll(spaces, <<69, 82, 82, 79, 82>>, <<LF, 69, 82, 82, 79, 82, LF>>)
    IN  joinSingleCharacters(collapseNewlines(stripLeadingNewlines(errors)))

\* saveReceivedDataToDb: the insert of a 'device' record for the shared session.
saveReceivedDataToDb(data) ==
    IF sharedSession = 0 THEN session_commands
    ELSE Append(session_commands,
                [session_id |-> sharedSession, sender |-> "device", command |-> data,
                 timestamp |-> "store"])

\* The handler that stores the text as decoded, without formatting it.
characteristicvaluechangedRaw(value) ==
    LET formattedData == formatBluetoothData(decode(value))
    IN  [listeners |-> Append(dataReceived, formattedData),
         commands |-> IF sharedSession # 0 THEN saveReceivedDataToDb(decode(value))
                      ELSE session_commands]

\* The characteristicvaluechanged handler: decode, format, notifyDataListeners,
\* and with a shared session saveReceivedDataToDb (not awaited).
characteristicvaluechanged(value) ==
    LET formattedData == formatBluetoothData(decode(value))
    IN  [listeners |-> Append(dataReceived, formattedData),
         commands |-> IF sharedSession # 0 THEN saveReceivedDataToDb(formattedData)
                      ELSE session_commands]

\* The connected device notifies a value (the store has room for the record).
CharacteristicValueChanged(value) ==
    LET r == characteristicvaluechanged(value) IN
    /\ connectedDevice # "null"
    /\ gattConnected[connectedDevice]
    /\ Len(dataReceived) < MaxData
    /\ sharedSession # 0 => Len(session_commands) < MaxRecords
    /\ dataReceived' = r.listeners
    /\ session_commands' = r.commands
    /\ UNCHANGED <<sharedSession, activeSession, uiConnected, share, executedCommands,
                   poll, push, pushEvents, sendCount, connectedSession>>
    /\ UNCHANGED <<linkVars, classVars, timerVars, channelVars, supVars, sessVars>>

\* ---- the transcript of the support page ----------------------------------
\* saveReceivedDataToDb: a notification of the shared device is stored.
DeviceData == {<<79, 75>>}

DeviceDataSaved(data) ==
    /\ sharedSession # 0
    /\ Len(session_commands) < MaxRecords
    /\ session_commands' =
          Append(session_commands,
                 [session_id |-> sharedSession, sender |-> "device", command |-> data,
                  timestamp |-> "store"])
    /\ UNCHANGED <<sharedSession, activeSession, uiConnected, share, executedCommands,
                   poll, push, pushEvents, sendCount, connectedSession>>
    /\ UNCHANGED <<linkVars, classVars, dataVars, channelVars, timerVars, supVars, sessVars>>

\* The line refreshCommands of the support page makes of a record.
supportLine(cmd) ==
    [label |-> IF cmd.sender = "support" THEN "Support sent: "
               ELSE IF cmd.sender = "user" THEN "User sent: "
               ELSE "Device response: ",
     text |-> cmd.command]

commandOutput(data) == [i \in 1..Len(data) |-> supportLine(data[i])]

\* The INSERT handler of the support page's channel gets the event of the
\* next record of the store (lost: the event does not arrive); the filter lets
\* the records of the viewed session through, and the handler appends the
\* record's line to the transcript.
SupInsertEvent(lost) ==
    LET cmd == session_commands[channel + 1] IN
    /\ connectedSession # 0
    /\ channel < Len(session_commands)
    /\ channel' = channel + 1
    /\ supOutput' = IF ~lost /\ cmd.session_id = connectedSession
                    THEN Append(supOutput, supportLine(cmd))
                    ELSE supOutput
    /\ UNCHANGED <<supSessions, supFetching, supFetch, supNotes, supToast, supList,
                   supPoll>>
    /\ UNCHANGED <<linkVars, classVars, dataVars, timerVars, sessVars, relayVars>>

\* refreshCommands of the support page (first run of the effect or its 1 s
\* interval) up to the await of the select.
SupRefreshCommands ==
    /\ intervals.supRelay > 0
    /\ connectedSession # 0
    /\ supPoll.pc = "idle"
    /\ supPoll' = [pc |-> "called", sid |-> connectedSession, data |-> <<>>]
    /\ UNCHANGED <<supSessions, supFetching, supFetch, supNotes, supOutput, supToast,
                   supList>>
    /\ UNCHANGED <<linkVars, classVars, dataVars, channelVars, timerVars, sessVars, relayVars>>

\* The select is answered; the transcript is set only from an answer with rows.
SupRefreshAnswer(ok) ==
    /\ supPoll.pc = "called"
    /\ supPoll' = [pc |-> "idle", sid |-> supPoll.sid,
                   data |-> IF ok THEN SessionRecords(supPoll.sid) ELSE <<>>]
    /\ supOutput' = IF ok /\ Len(SessionRecords(supPoll.sid)) > 0
                    THEN commandOutput(SessionRecords(supPoll.sid))
                    ELSE supOutput
    /\ UNCHANGED <<supSessions, supFetching, supFetch, supNotes, supToast, supList>>
    /\ UNCHANGED <<linkVars, classVars, dataVars, channelVars, timerVars, sessVars, relayVars>>

(***************************************************************************)
(* Error Classifier, applied to an arbitrary thrown value                  *)
(***************************************************************************)
\* The substrings the rules look for, and the messages built from them.
Markers == UNION {Rules[i].markers : i \in 1..Len(Rules)}

RECURSIVE Concat(_)
Concat(S) ==
    IF S = {} THEN <<>>
    ELSE LET m == CHOOSE x \in S : TRUE IN <<";">> \o m \o Concat(S \ {m})

Failures ==
    {[tag |-> t, text |-> <<"Error", ":">> \o Concat(S)] :
        t \in {"Error", "string"}, S \in SUBSET Markers}
    \cup {[tag |-> t, text |-> <<>>] : t \in {"undefined", "null", "object"}}

Classify ==
    /\ classified = "none"
    /\ classified' = parseBluetoothError(failure)
    /\ UNCHANGED failure
    /\ UNCHANGED <<linkVars, sessVars, relayVars, supVars, timerVars, dataVars, channelVars>>

(***************************************************************************)
(* Specifications                                                          *)
(***************************************************************************)
InitLink ==
    /\ env \in Envs
    /\ gattConnected = [d \in DeviceIds |-> FALSE]
    /\ scannedDevices = {}
    /\ connectedDevice = "null"
    /\ characteristic = "null"
    /\ isConnectionActive = FALSE
    /\ scan = "idle"
    /\ conn = NoConn
    /\ send = [c \in Callers |-> NoSend]
    /\ scanResult = [kind |-> "none", devices |-> {}]
    /\ connResult = NoConnResult
    /\ sendResult = [c \in Callers |-> NoResult]
    /\ lastDisconnect = [from |-> "never", raised |-> FALSE]
    /\ livenessFailed = FALSE

\* new SessionService(): empty cache; the constructor's first fetch is running.
InitSess ==
    /\ remote_sessions = [id \in SessionIds |-> "none"]
    /\ activeSessions = {}
    /\ isFetching = TRUE
    /\ fetch = [pc |-> "called", by |-> "constructor", data |-> {}]
    /\ create = [pc |-> "idle", id |-> 0]
    /\ close = NoClose
    /\ getAll = NoGetAll
    /\ createResult = NoCreateResult
    /\ closeResult = NoCloseResult
    /\ getAllResult = NoGetAllResult
    /\ createdResolved = {}
    /\ closedResolved = {}

\* The support page is loaded in its own browser: an empty cache, the first
\* fetch of its service running, nothing shown.
InitSup ==
    /\ supSessions = {}
    /\ supFetching = TRUE
    /\ supFetch = [pc |-> "called", data |-> {}]
    /\ supNotes = <<>>
    /\ supOutput = <<>>
    /\ supToast = "none"
    /\ supList = {}
    /\ supPoll = NoSupPoll

InitRelay ==
    /\ sharedSession = 0
    /\ activeSession = 0
    /\ uiConnected = FALSE
    /\ share = "idle"
    /\ session_commands = <<>>
    /\ executedCommands = {}
    /\ poll = [p \in PollIds |-> NoPoll]
    /\ push = NoPush
    /\ pushEvents = {}
    /\ sendCount = [r \in 1..MaxRecords |-> 0]
    /\ connectedSession = 0
    /\ intervals = NoIntervals
    /\ dataReceived = <<>>
    /\ channel = 0

Init ==
    /\ InitLink
    /\ InitSess
    /\ InitRelay
    /\ InitSup
    /\ failure = [tag |-> "undefined", text |-> <<>>]
    /\ classified = "none"

\* The Device Link driven through its public methods by one page.
NextLink ==
    \/ ScanCall
    \/ \E d \in DeviceIds : ScanChosen(d)
    \/ \E msg \in ChooserErrors : ScanRejected(msg)
    \/ \E d \in DeviceIds : ConnectCall(d)
    \/ ConnectGattOk
    \/ \E msg \in GattConnectErrors : ConnectGattFail(msg)
    \/ ConnectStepOk
    \/ ConnectServiceFail
    \/ ConnectStepFail
    \/ \E stop \in {"ok", "throws", "rejects"}, gattThrows \in BOOLEAN :
          Disconnect(stop, gattThrows)
    \/ VerifyConnection
    \/ \E d \in DeviceIds : GattDrop(d)
    \/ \E command \in Commands : SendCommand("ui", command)
    \/ \E stored \in BOOLEAN : SendWriteOk("ui", stored)
    \/ \E msg \in WriteErrors : SendWriteFail("ui", msg)

Spec == Init /\ [][NextLink]_vars

InitClassify ==
    /\ InitLink
    /\ InitSess
    /\ InitRelay
    /\ InitSup
    /\ env = [hasBluetoothAPI |-> TRUE, isSecureContext |-> TRUE,
              isIOS |-> FALSE, isSafari |-> FALSE]
    /\ failure \in Failures
    /\ classified = "none"

SpecClassify == InitClassify /\ [][Classify]_vars

\* The Session Directory driven through its public methods and its timer.
InitSession ==
    /\ Init
    /\ env = [hasBluetoothAPI |-> TRUE, isSecureContext |-> TRUE,
              isIOS |-> FALSE, isSafari |-> FALSE]

NextSession ==
    \/ FetchRead
    \/ FetchReadError
    \/ FetchDone
    \/ GetAllSessions
    \/ ForceRefreshFromDb
    \/ IntervalTick
    \/ CreateSession
    \/ CreateSessionDone
    \/ \E id \in KnownSessions, storeError \in BOOLEAN : CloseSession(id, storeError)
    \/ CloseSessionDone

SpecSession == InitSession /\ [][NextSession]_vars

\* The page is loaded: the constructor's first fetch has found the store empty.
InitShare ==
    /\ InitLink
    /\ env = [hasBluetoothAPI |-> TRUE, isSecureContext |-> TRUE,
              isIOS |-> FALSE, isSafari |-> FALSE]
    /\ InitRelay
    /\ InitSup
    /\ failure = [tag |-> "undefined", text |-> <<>>]
    /\ classified = "none"
    /\ remote_sessions = [id \in SessionIds |-> "none"]
    /\ activeSessions = {}
    /\ isFetching = FALSE
    /\ fetch = NoFetch
    /\ create = [pc |-> "idle", id |-> 0]
    /\ close = NoClose
    /\ getAll = NoGetAll
    /\ createResult = NoCreateResult
    /\ closeResult = NoCloseResult
    /\ getAllResult = NoGetAllResult
    /\ createdResolved = {}
    /\ closedResolved = {}

\* The device page: connecting, sharing and ending the sharing of its link.
NextShare ==
    \/ ScanCall
    \/ \E d \in DeviceIds : ScanChosen(d)
    \/ \E d \in DeviceIds : ConnectCall(d)
    \/ ConnectGattOk
    \/ UiConnectStepOk
    \/ \E d \in DeviceIds : GattDrop(d)
    \/ UiLivenessTick
    \/ \E stop \in {"ok", "throws", "rejects"}, gattThrows \in BOOLEAN :
          UiDisconnectDevice(stop, gattThrows)
    \/ FetchRead
    \/ FetchReadError
    \/ FetchDone
    \/ OnShareSessionSubmit
    \/ CreateSessionDone
    \/ ShareSubmitted
    \/ \E storeError \in BOOLEAN : StopSharingSession(storeError)
    \/ CloseSessionDone
    \/ \E storeError \in BOOLEAN : SharingStopped(storeError)

SpecShare == InitShare /\ [][NextShare]_vars

\* The two pages when the device page has connected to d1 and shared it as
\* session 1 (the fetch started by shareDeviceSession has finished).
SharingPage ==
    /\ env = [hasBluetoothAPI |-> TRUE, isSecureContext |-> TRUE,
              isIOS |-> FALSE, isSafari |-> FALSE]
    /\ gattConnected = [d \in DeviceIds |-> d = "d1"]
    /\ scannedDevices = {"d1"}
    /\ connectedDevice = "d1"
    /\ characteristic = "d1"
    /\ isConnectionActive = TRUE
    /\ scan = "idle"
    /\ conn = NoConn
    /\ send = [c \in Callers |-> NoSend]
    /\ scanResult = [kind |-> "ok", devices |-> {"d1"}]
    /\ connResult = [kind |-> "ok", at |-> "notify"]
    /\ sendResult = [c \in Callers |-> NoResult]
    /\ lastDisconnect = [from |-> "never", raised |-> FALSE]
    /\ livenessFailed = FALSE
    /\ failure = [tag |-> "undefined", text |-> <<>>]
    /\ classified = "none"
    /\ activeSessions = {1}
    /\ isFetching = FALSE
    /\ fetch = NoFetch
    /\ create = [pc |-> "idle", id |-> 0]
    /\ close = NoClose
    /\ getAll = NoGetAll
    /\ createResult = [kind |-> "session", id |-> 1, notified |-> TRUE]
    /\ closeResult = NoCloseResult
    /\ getAllResult = NoGetAllResult
    /\ createdResolved = {1}
    /\ closedResolved = {}
    /\ sharedSession = 1
    /\ activeSession = 1
    /\ uiConnected = TRUE
    /\ share = "idle"
    /\ session_commands = <<>>
    /\ executedCommands = {}
    /\ poll = [p \in PollIds |-> NoPoll]
    /\ push = NoPush
    /\ pushEvents = {}
    /\ sendCount = [r \in 1..MaxRecords |-> 0]
    /\ connectedSession = 0
    /\ intervals = [NoIntervals EXCEPT !.liveness = 1, !.relay = 1]
    /\ dataReceived = <<>>
    /\ channel = 0
    /\ InitSup

\* The state SpecShare reaches then: session 1 is the only one in the store.
Sharing ==
    /\ SharingPage
    /\ remote_sessions = [id \in SessionIds |-> IF id = 1 THEN "active" ELSE "none"]

\* The device page from then on: it disconnects, connects again, ends the
\* sharing and shares again, with as many sessions as the store has room for.
NextReshare ==
    \/ \E stop \in {"ok", "rejects"}, gattThrows \in BOOLEAN :
          UiDisconnectDevice(stop, gattThrows)
    \/ \E d \in DeviceIds : ConnectCall(d)
    \/ ConnectGattOk
    \/ UiConnectStepOk
    \/ FetchRead
    \/ FetchDone
    \/ onShareSessionSubmit
    \/ CreateSessionDone
    \/ ShareSubmitted
    \/ \E storeError \in BOOLEAN : StopSharingSession(storeError)
    \/ CloseSessionDone
    \/ \E storeError \in BOOLEAN : SharingStopped(storeError)

SpecReshare == Sharing /\ [][NextReshare]_vars

\* The timers of the two pages while the device page disconnects, connects
\* again, ends and renews the sharing and is unmounted, and the support page
\* views the session and leaves it.
NextTimers ==
    \/ UiUnmount
    \/ \E gattThrows \in BOOLEAN : UiDisconnectDevice("ok", gattThrows)
    \/ ConnectCall("d1")
    \/ ConnectGattOk
    \/ UiConnectStepOk
    \/ GattDrop("d1")
    \/ UiLivenessTick
    \/ onShareSessionSubmit
    \/ CreateSessionDone
    \/ ShareSubmitted
    \/ StopSharingSession(FALSE)
    \/ CloseSessionDone
    \/ SharingStopped(FALSE)
    \/ FetchRead
    \/ FetchDone
    \/ \E read \in BOOLEAN : RefreshTick(read)
    \/ \E p \in PollIds : RefreshLoop(p)
    \/ \E sid \in SessionIds : ConnectToSession(sid)
    \/ DisconnectSession

SpecTimers == Sharing /\ [][NextTimers]_vars

\* The notifications of the device while the page shares it, ends the sharing
\* and disconnects.
NextNotify ==
    \/ \E value \in RawData : CharacteristicValueChanged(value)
    \/ StopSharingSession(FALSE)
    \/ CloseSessionDone
    \/ SharingStopped(FALSE)
    \/ GattDrop("d1")
    \/ \E gattThrows \in BOOLEAN : UiDisconnectDevice("ok", gattThrows)
    \/ ConnectCall("d1")
    \/ ConnectGattOk
    \/ UiConnectStepOk
    \/ FetchRead
    \/ FetchDone

SpecNotify == Sharing /\ [][NextNotify]_vars

\* formatBluetoothData applied to every chunk of at most MaxChunk characters
\* out of A, T, +, =, 1 and the newline, as the first notification of the
\* shared device.
MaxChunk == 5
ChunkBytes == {65, 84, 43, 61, 49, LF}
Chunks == UNION {[1..n -> ChunkBytes] : n \in 0..MaxChunk}

NextFormat ==
    \E value \in Chunks : dataReceived = <<>> /\ CharacteristicValueChanged(value)

SpecFormat == Sharing /\ [][NextFormat]_vars

\* Everything that writes to the store: the device page shares, ends the
\* sharing and shares again, sends commands and relays the device's answers,
\* its SessionService refreshes, and the support page sends commands.
NextStore ==
    \/ onShareSessionSubmit
    \/ CreateSessionDone
    \/ ShareSubmitted
    \/ \E storeError \in BOOLEAN : StopSharingSession(storeError)
    \/ CloseSessionDone
    \/ \E storeError \in BOOLEAN : SharingStopped(storeError)
    \/ FetchRead
    \/ FetchDone
    \/ IntervalTick
    \/ \E sid \in SessionIds : ConnectToSession(sid)
    \/ DisconnectSession
    \/ \E command \in SupportCommands : SupportSendCommand(command, FALSE)
    \/ \E data \in DeviceData : DeviceDataSaved(data)
    \/ \E command \in Commands : SendCommand("ui", command)
    \/ \E stored \in BOOLEAN : SendWriteOk("ui", stored)
    \/ SendSaved("ui")

SpecStore == Sharing /\ [][NextStore]_vars

\* The relay of the shared session while the device page ends the sharing
\* (the store applies or rejects the update of closeSession): the support
\* page goes on sending, and the polls and the INSERT handler that
\* were started before run to their end.
NextStopRelay ==
    \/ \E storeError \in BOOLEAN : StopSharingSession(storeError)
    \/ CloseSessionDone
    \/ \E storeError \in BOOLEAN : SharingStopped(storeError)
    \/ FetchRead
    \/ FetchDone
    \/ \E sid \in SessionIds : ConnectToSession(sid)
    \/ \E command \in SupportCommands, notified \in BOOLEAN :
          SupportSendCommand(command, notified)
    \/ \E read \in BOOLEAN : RefreshTick(read)
    \/ \E p \in PollIds : RefreshLoop(p)
    \/ \E r \in 1..MaxRecords : PushDeliver(r)
    \/ \E read \in BOOLEAN : PushNext(read)
    \/ \E read \in BOOLEAN : PushThird(read)
    \/ \E gatt \in BOOLEAN, read \in BOOLEAN : PushDirect(gatt, read)
    \/ \E c \in Callers, stored \in BOOLEAN : SendWriteOk(c, stored)
    \/ \E c \in Callers, msg \in WriteErrors : SendWriteFail(c, msg)
    \/ \E c \in Callers : SendSaved(c)

SpecStopRelay == Sharing /\ [][NextStopRelay]_vars

\* The sends of the sharing device page: the user's own (Send button) next to
\* those its 1 s poll makes for the commands of the support page.
NextSends ==
    \/ \E command \in Commands : SendCommand("ui", command)
    \/ \E c \in Callers, stored \in BOOLEAN : SendWriteOk(c, stored)
    \/ \E c \in Callers, msg \in WriteErrors : SendWriteFail(c, msg)
    \/ \E c \in Callers : SendSaved(c)
    \/ \E sid \in SessionIds : ConnectToSession(sid)
    \/ \E command \in SupportCommands, notified \in BOOLEAN :
          SupportSendCommand(command, notified)
    \/ \E read \in BOOLEAN : RefreshTick(read)
    \/ \E p \in PollIds : RefreshLoop(p)

SpecSends == Sharing /\ [][NextSends]_vars

\* The relay of one shared session between the support page and the device
\* page, from the moment the sharing is set up.
NextRelay ==
    \/ \E d \in DeviceIds : GattDrop(d)
    \/ UiLivenessTick
    \/ \E stop \in {"ok", "throws", "rejects"}, gattThrows \in BOOLEAN :
          UiDisconnectDevice(stop, gattThrows)
    \/ \E c \in Callers, stored \in BOOLEAN : SendWriteOk(c, stored)
    \/ \E c \in Callers, msg \in WriteErrors : SendWriteFail(c, msg)
    \/ \E c \in Callers : SendSaved(c)
    \/ \E sid \in SessionIds : ConnectToSession(sid)
    \/ DisconnectSession
    \/ \E command \in SupportCommands, notified \in BOOLEAN :
          SupportSendCommand(command, notified)
    \/ \E read \in BOOLEAN : RefreshTick(read)
    \/ \E p \in PollIds : RefreshLoop(p)
    \/ \E r \in 1..MaxRecords : PushDeliver(r)
    \/ \E read \in BOOLEAN : PushNext(read)
    \/ \E read \in BOOLEAN : PushThird(read)
    \/ \E gatt \in BOOLEAN, read \in BOOLEAN : PushDirect(gatt, read)

SpecRelay == Sharing /\ [][NextRelay]_vars

\* The same under the scheduling the page relies on: the 1 s interval keeps
\* firing and the store keeps answering its select, the loop of a running
\* refreshCommands is resumed, and the platform settles every writeValue and
\* the store every insert.
RelayFairness ==
    /\ SF_vars(RefreshTick(TRUE))
    /\ WF_vars(\E p \in PollIds : RefreshLoop(p))
    /\ WF_vars(\E c \in Callers :
                  \/ \E stored \in BOOLEAN : SendWriteOk(c, stored)
                  \/ \E msg \in WriteErrors : SendWriteFail(c, msg))
    /\ WF_vars(\E c \in Callers : SendSaved(c))

SpecRelayLive == Sharing /\ [][NextRelay]_vars /\ RelayFairness

\* The support page next to the device page that shares session 1, without
\* the user of the support page pressing Refresh.
NextSupportAuto ==
    \/ SupFetchRead
    \/ SupFetchReadError
    \/ SupFetchDone
    \/ SupIntervalTick
    \/ SupListenerCall
    \/ \E sid \in SessionIds : SupConnectToSession(sid)
    \/ SupDisconnectSession
    \/ SupRefreshCommands
    \/ \E ok \in BOOLEAN : SupRefreshAnswer(ok)
    \/ \E command \in SupportCommands, notified \in BOOLEAN :
          SupportSendCommand(command, notified)
    \/ \E data \in DeviceData : DeviceDataSaved(data)
    \/ \E storeError \in BOOLEAN : StopSharingSession(storeError)
    \/ CloseSessionDone
    \/ \E storeError \in BOOLEAN : SharingStopped(storeError)
    \/ FetchRead
    \/ FetchDone

NextSupport ==
    \/ NextSupportAuto
    \/ SupRefreshSessions

SpecSupport == Sharing /\ [][NextSupport]_vars

\* The timers of the support page keep firing and its requests are answered.
SupportFairness ==
    /\ WF_vars(SupIntervalTick)
    /\ WF_vars(SupListenerCall)
    /\ WF_vars(SupFetchRead)
    /\ WF_vars(SupFetchDone)

SpecSupportLive == Sharing /\ [][NextSupportAuto]_vars /\ SupportFairness


\* sendCommand called with texts of every kind on a connected link: the page
\* has connected to d1 and shares nothing.
MaxText == 2
\* A, CR, LF, e acute, the euro sign, a high and a low surrogate.
CodeUnits == {65, CR, LF, 233, 8364, 55357, 56832}
Texts == UNION {[1..n -> CodeUnits] : n \in 0..MaxText}

InitEncode ==
    /\ env = [hasBluetoothAPI |-> TRUE, isSecureContext |-> TRUE,
              isIOS |-> FALSE, isSafari |-> FALSE]
    /\ gattConnected = [d \in DeviceIds |-> d = "d1"]
    /\ scannedDevices = {"d1"}
    /\ connectedDevice = "d1"
    /\ characteristic = "d1"
    /\ isConnectionActive = TRUE
    /\ scan = "idle"
    /\ conn = NoConn
    /\ send = [c \in Callers |-> NoSend]
    /\ scanResult = [kind |-> "ok", devices |-> {"d1"}]
    /\ connResult = [kind |-> "ok", at |-> "notify"]
    /\ sendResult = [c \in Callers |-> NoResult]
    /\ lastDisconnect = [from |-> "never", raised |-> FALSE]
    /\ livenessFailed = FALSE
    /\ failure = [tag |-> "undefined", text |-> <<>>]
    /\ classified = "none"
    /\ InitSess
    /\ InitRelay
    /\ InitSup

NextEncode ==
    \/ \E command \in Texts : SendCommand("ui", command)
    \/ \E stored \in BOOLEAN : SendWriteOk("ui", stored)
    \/ \E msg \in WriteErrors : SendWriteFail("ui", msg)
    \/ \E d \in DeviceIds : GattDrop(d)
    \/ VerifyConnection

SpecEncode == InitEncode /\ [][NextEncode]_vars


\* The transcript of a support page that can choose between the session of
\* this device page and the sessions other device pages share.
SharingAmongOthers ==
    /\ SharingPage
    /\ remote_sessions = [id \in SessionIds |-> "active"]

NextTranscript ==
    \/ SupFetchRead
    \/ SupFetchDone
    \/ SupListenerCall
    \/ \E sid \in SessionIds : SupConnectToSession(sid)
    \/ SupDisconnectSession
    \/ SupRefreshCommands
    \/ \E ok \in BOOLEAN : SupRefreshAnswer(ok)
    \/ \E lost \in BOOLEAN : SupInsertEvent(lost)
    \/ \E command \in SupportCommands, notified \in BOOLEAN :
          SupportSendCommand(command, notified)
    \/ \E data \in DeviceData : DeviceDataSaved(data)

SpecTranscript == SharingAmongOthers /\ [][NextTranscript]_vars


(***************************************************************************)
(* Properties                                                              *)
(***************************************************************************)
\* C3: every disconnect() step, from whatever state and whatever its
\* stopNotifications / gatt.disconnect sub-steps do, completes without throwing
\* and leaves isConnected() false.
C3_DisconnectNeverRaises ==
    [][(\E stop \in {"ok", "throws", "rejects"}, gattThrows \in BOOLEAN :
            Disconnect(stop, gattThrows))
        => (~lastDisconnect'.raised /\ ~isConnected')]_vars

\* disconnect() was called while a connect had stored the characteristic but
\* not yet started notifications, and the link reports not connected.
C3_Witness ==
    /\ lastDisconnect.from = "notify"
    /\ conn.pc = "notify"
    /\ characteristic = "null"
    /\ ~isConnected

\* C4: once a liveness check has found a Connected link dead the link is not
\* connected, and a sendCommand called after it (no reconnect in between)
\* rejects with device-disconnected and never reaches writeValue.
C4_DeadLinkRejectsSend ==
    /\ livenessFailed => ~isConnected
    /\ \A c \in Callers :
          /\ send[c].lf => send[c].pc # "writing"
          /\ sendResult[c].lf =>
                sendResult[c].kind = "device-disconnected" /\ ~sendResult[c].wrote

C4_Witness ==
    /\ livenessFailed
    /\ sendResult["ui"].lf
    /\ sendResult["ui"].kind = "device-disconnected"

\* C5: whatever value is classified, the result is one of the eleven kinds,
\* and it is unknown when the value's text contains none of the markers.
FailureText == IF failure.tag = "Error" THEN failure.text ELSE JsString(failure)

C5_ClassifierTotal ==
    classified # "none" =>
        /\ classified \in BluetoothErrorType
        /\ (\A m \in Markers : ~Includes(FailureText, m)) => classified = "unknown"

C5_Witness ==
    /\ classified = "unknown"
    /\ failure.tag = "object"

\* C6: when both the vendor service and generic_access fail to resolve,
\* connectToDevice rejects with kind service-not-found.
C6_ServiceNotFound ==
    connResult.at = "fallback" => connResult.kind = "service-not-found"

\* C7: when the characteristic fails to resolve, connectToDevice rejects with
\* kind characteristic-not-found and the link is not connected.
C7_CharacteristicNotFound ==
    connResult.at = "char" =>
        connResult.kind = "characteristic-not-found" /\ ~isConnected

\* C8: a sendCommand that passed the liveness check and whose writeValue
\* failed rejects with kind write-failed.
C8_WriteFailed ==
    \A c \in Callers :
        (sendResult[c].wrote /\ sendResult[c].kind # "ok") =>
            sendResult[c].kind = "write-failed"

\* C9: a scan without the platform Bluetooth capability fails with
\* not-supported, one outside a secure context fails with security-error, and
\* in both cases nothing is stored and the chooser is not opened.
C9_ScanUnavailable ==
    /\ ~isWebBluetoothAvailable => scan = "idle" /\ scannedDevices = {}
    /\ (scanResult.kind # "none" /\ env.isSecureContext /\ ~env.hasBluetoothAPI)
          => scanResult.kind = "not-supported"
    /\ (scanResult.kind # "none" /\ ~env.isSecureContext)
          => scanResult.kind = "security-error"

\* C1: for every support record of the shared session the device side calls
\* sendCommand at most once, however the INSERT handler and the polls interleave.
C1_AtMostOnce ==
    \A r \in 1..Len(session_commands) :
        session_commands[r].sender = "support" => sendCount[r] <= 1

\* A support record the device page should be sending and has not yet sent.
Unsent(r) ==
    /\ r <= Len(session_commands)
    /\ session_commands[r].sender = "support"
    /\ activeSession # 0
    /\ session_commands[r].session_id = activeSession
    /\ isConnected
    /\ sendCount[r] = 0

\* C2: a support record of the session the device page shares, with the link
\* connected, does not stay unsent for ever: it is handed to sendCommand (or
\* the sharing ends or the link stops being connected).  This holds for every
\* record id, so for two records with the same command text as well.
C2_EverySupportRecordSent ==
    \A r \in 1..MaxRecords : Unsent(r) ~> ~Unsent(r)

\* Two support records with the same command text, both sent by the poll.
C2_Witness ==
    \E r1, r2 \in 1..Len(session_commands) :
        /\ r1 # r2
        /\ session_commands[r1].sender = "support"
        /\ session_commands[r2].sender = "support"
        /\ session_commands[r1].command = session_commands[r2].command
        /\ {commandKey(r1), commandKey(r2)} \subseteq executedCommands
        /\ sendCount[r1] > 0 /\ sendCount[r2] > 0

\* C10: a getAllSessions call made after createSession resolved returns a
\* list containing the new session (as long as it is active in the store), and
\* one made after closeSession resolved returns a list without that session.
C10_SessionVisibility ==
    getAllResult.returned =>
        /\ getAllResult.required \subseteq getAllResult.list
        /\ getAllResult.forbidden \cap getAllResult.list = {}


\* C11: once the device side has closed the session in the store, a support
\* page connected to it eventually drops the session from its list and leaves
\* the connected view, by the 10 s timer alone.
C11_ClosedSessionDisappears ==
    \A s \in SessionIds :
        (connectedSession = s /\ remote_sessions[s] = "inactive")
            ~> (connectedSession # s /\ s \notin supList)

\* C12: whenever a session listener of the support page is called with a
\* list that lacks the session the page views, the page clears
\* connectedSession and the transcript and shows the "Session Ended" toast.
C12_ListenerTearsDown ==
    [][(SupListenerCall /\ connectedSession # 0
           /\ connectedSession \notin Head(supNotes).sessions)
          => (connectedSession' = 0 /\ supOutput' = <<>> /\ supToast' = "Session Ended")]_vars


\* A sendCommand for support record r has just been rejected and its caller
\* (a running refreshCommands or the INSERT handler) has not yet gone on.
FailedSend(r) ==
    \/ \E p \in PollIds :
          /\ poll[p].pc = "sending" /\ poll[p].i = r
          /\ send[PollCaller(p)].pc = "idle"
          /\ sendResult[PollCaller(p)].kind \notin {"ok", "none"}
    \/ /\ push.pc \in {"block1", "block2", "block3"} /\ push.rid = r
       /\ send["push"].pc = "idle"
       /\ sendResult["push"].kind \notin {"ok", "none"}

\* C13: a support record whose send failed is not sent again, neither by the
\* poll nor by the INSERT handler.
C13_FailedNotRetried ==
    [][\A r \in 1..MaxRecords : FailedSend(r) => sendCount'[r] = sendCount[r]]_vars


\* C14: what a sendCommand(C) that reaches writeValue hands to it is the
\* encoding of C followed by the bytes CR and LF, nothing more and nothing less.
C14_WritesCommandCRLF ==
    \A c \in Callers :
        send[c].pc = "writing" => send[c].data = encode(send[c].cmd) \o <<CR, LF>>

C14_Witness ==
    /\ send["ui"].pc = "writing"
    /\ Len(send["ui"].cmd) = 2
    /\ Len(send["ui"].data) > Len(send["ui"].cmd) + 2


\* C15: scanForDevices returns and stores at most one device, the chosen one
\* and only if the name the platform reports for it starts with "86"; a device
\* with another name or none is never stored, so no connect by its id gets
\* past the lookup.
C15_ScanKeepsOnly86 ==
    LET named86(d) == StartsWith(PlatformName(d), <<"8", "6">>) IN
    /\ Cardinality(scannedDevices) <= 1
    /\ Cardinality(scanResult.devices) <= 1
    /\ scanResult.kind = "ok" => scanResult.devices = scannedDevices
    /\ \A d \in scannedDevices \cup scanResult.devices : named86(d)
    /\ conn.pc # "idle" => named86(conn.dev)
    /\ connectedDevice # "null" => named86(connectedDevice)

C15_Witness ==
    /\ isWebBluetoothAvailable
    /\ scanResult = [kind |-> "ok", devices |-> {}]
    /\ scannedDevices = {}
    /\ connResult.kind \notin {"none", "ok"}
    /\ connectedDevice # "null"


\* C16: when a poll of the support page for the session it views has read the
\* store, the transcript it shows is the records of that session in the order
\* of the store, each under the label of its sender.
C16_TranscriptIsTheRecords ==
    [][(SupRefreshAnswer(TRUE) /\ supPoll.sid = connectedSession)
          => supOutput' = commandOutput(SessionRecords(connectedSession))]_vars


\* C17: when connectToDevice rejects after its lookup, nothing of the attempt
\* remains: no characteristic, the active flag down, isConnected() false and
\* the GATT connection the attempt opened closed again.
C17_FailedConnectCleansUp ==
    [][(conn.pc # "idle" /\ conn'.pc = "idle" /\ connResult'.kind \notin {"ok", "none"})
          => /\ characteristic' = "null"
             /\ ~isConnectionActive'
             /\ ~isConnected'
             /\ conn.opened => ~gattConnected'[conn.dev]]_vars


\* C18: closeSession returns true exactly when the store held an active record
\* of the id when it was called, whatever the cache of the caller holds.
C18_CloseReportsStore ==
    closeResult.kind = "returned" => closeResult.value = closeResult.existed


\* C19: getAllSessions never returns the cache without a select of its own,
\* not even when it is called while another fetch is running.
C19_GetAllAlwaysReads ==
    getAllResult.returned => getAllResult.read # "none"


\* C20: a createSession whose insert failed rejects, leaves the cache and the
\* store alone and sets no notification timer, and the device page stays out
\* of the sharing state; one whose insert succeeded returns the id the store
\* assigned.
C20_NoLocalFallback ==
    [][/\ (create.pc = "failed" /\ create'.pc = "idle")
            => /\ createResult' = [kind |-> "error", id |-> 0, notified |-> FALSE]
               /\ activeSessions' = activeSessions
               /\ remote_sessions' = remote_sessions
       /\ (share = "creating" /\ share' = "idle" /\ createResult.kind = "error")
            => /\ sharedSession' = sharedSession
               /\ activeSession' = 0
       /\ (create.pc = "inserted" /\ create'.pc = "idle")
            => /\ createResult'.kind = "session"
               /\ createResult'.id = create.id
               /\ remote_sessions[createResult'.id] # "none"]_vars

C20_Witness ==
    /\ uiConnected
    /\ connectedDevice # "null"
    /\ createResult.kind = "error"
    /\ share = "idle"
    /\ activeSession = 0
    /\ sharedSession = 0
    /\ activeSessions = {}


\* C21: the link holds a characteristic exactly when it records a connected
\* device whose service and characteristic were negotiated: a characteristic is
\* stored only for the device recorded in connectedDevice, and a recorded
\* device the link counts as active has its characteristic stored.
C21_SerialLinkIffConnected ==
    /\ characteristic # "null" => connectedDevice = characteristic
    /\ (connectedDevice # "null" /\ isConnectionActive) => characteristic # "null"


\* C22: the store never holds two active sessions of the device page, however
\* it shares, stops sharing, disconnects, connects again and shares again.
C22_OneActiveShare == Cardinality(ActiveInStore) <= 1


\* C23: disconnect() never resets the link while a sendCommand is between its
\* liveness check and the settling of its writeValue.
C23_SendExcludesDisconnect ==
    [][(\E stop \in {"ok", "throws", "rejects"}, gattThrows \in BOOLEAN :
            disconnectStep(stop, gattThrows))
          => \A c \in Callers : send[c].pc # "writing"]_vars


\* C24: at most one sendCommand of the device page is in flight at any time,
\* whether the user or the auto-execution of a support command made the call.
C24_SingleSendInFlight ==
    Cardinality({c \in Callers : send[c].pc # "idle"}) <= 1


C27_StoreAssignsTimestamps ==
    \A i \in 1..Len(session_commands) : session_commands[i].timestamp = "store"


\* C28: the list a session listener is called with is the active-session list
\* of the service at the moment of the call.
C28_ListenerGetsCurrentList ==
    [][SupListenerCall => Head(supNotes).sessions = supSessions]_vars


\* C29: the kind returned for a failure is that of the first rule, in the
\* order user-cancelled, adapter unavailable, GATT disconnected, service not
\* found, security error, permission denied, connection failed, getDevices
\* missing, no device connected, characteristic not found, that its message
\* matches, and unknown if it matches none; any failure with the same message
\* gets the same kind.
C29_FirstMatchWins ==
    LET message(f) == IF f.tag = "Error" THEN f.text ELSE JsString(f)
        has(m) == Includes(message(failure), m)
        kind ==
            IF has(<<"User", "cancelled">>) THEN "user-cancelled"
            ELSE IF has(<<"Bluetooth", "adapter", "is", "not", "available">>)
            THEN "not-supported"
            ELSE IF has(<<"GATT", "Server", "is", "disconnected">>)
            THEN "device-disconnected"
            ELSE IF has(<<"NotFoundError">>) \/ has(<<"no", "such", "service">>)
            THEN "service-not-found"
            ELSE IF has(<<"SecurityError">>) \/ has(<<"secure", "context">>)
            THEN "security-error"
            ELSE IF has(<<"Permission", "denied">>) \/ has(<<"NotAllowedError">>)
            THEN "permission-denied"
            ELSE IF has(<<"Failed", "to", "connect">>) THEN "connection-failed"
            ELSE IF has(<<"getDevices", "is", "not", "a", "function">>)
            THEN "not-supported"
            ELSE IF has(<<"No", "device", "connected">>) THEN "device-disconnected"
            ELSE IF has(<<"characteristic", "not", "available">>)
            THEN "characteristic-not-found"
            ELSE "unknown"
    IN  classified # "none"
            => /\ classified = kind
               /\ \A t \in {"Error", "string"} :
                     parseBluetoothError([tag |-> t, text |-> message(failure)])
                        = classified

C29_Witness ==
    /\ classified = "service-not-found"
    /\ failure.tag = "string"
    /\ Includes(failure.text, <<"no", "such", "service">>)
    /\ Includes(failure.text, <<"Permission", "denied">>)
    /\ Includes(failure.text, <<"characteristic", "not", "available">>)
    /\ ~Includes(failure.text, <<"NotFoundError">>)


\* C30: no step removes a session record from the store or makes an inactive
\* one active again, and no step changes or removes a relay record: the log
\* only grows at its end.
C30_StoreKeepsRecords ==
    [][/\ \A id \in SessionIds :
             /\ remote_sessions[id] # "none" => remote_sessions'[id] # "none"
             /\ remote_sessions[id] = "inactive" => remote_sessions'[id] = "inactive"
       /\ Len(session_commands') >= Len(session_commands)
       /\ SubSeq(session_commands', 1, Len(session_commands)) = session_commands]_vars

C30_Witness ==
    /\ remote_sessions = <<"inactive", "active">>
    /\ closeResult.kind = "returned"
    /\ activeSession = 2
    /\ Len(session_commands) = 2
    /\ session_commands[1].session_id = 1
    /\ session_commands[2].session_id = 2


\* The text has a newline right before every "AT+" that is not at its start.
BreaksBeforeAT(text) ==
    \A i \in 2..(Len(text) - 2) :
        SubSeq(text, i, i + 2) = <<65, 84, 43>> => text[i - 1] = LF

\* C31: in what formatBluetoothData returns, every "AT+" that is not at the
\* very start is immediately preceded by a newline, whatever the chunk.
C31_BreakBeforeAT ==
    \A k \in 1..Len(dataReceived) : BreaksBeforeAT(dataReceived[k])


\* C32: whenever connectToDevice resolves without error the link is Connected
\* at that moment: isConnected() and verifyConnection() report true, also when
\* disconnect() was called while the connect was awaiting a GATT request.
C32_ResolvedMeansConnected ==
    [][(conn.pc # "idle" /\ conn'.pc = "idle" /\ connResult'.kind = "ok")
          => (isConnected' /\ verifyConnection'.result)]_vars


\* C33: once the device page has disconnected and as long as it has not
\* started a sharing again, the device side appends nothing to the relay log:
\* neither a notification of the device nor a command sent after a reconnect
\* is written to the store.
C33_DisconnectEndsRelay ==
    [][(lastDisconnect.from # "never" /\ activeSession = 0 /\ share = "idle")
          => ~(/\ Len(session_commands') > Len(session_commands)
               /\ session_commands'[Len(session_commands')].sender
                     \in {"user", "device"})]_vars


\* C34: once stopSharingSession of the device page has completed, no support
\* record causes a sendCommand any more: neither a poll nor the INSERT handler,
\* not even one that was running when the sharing was stopped, starts a send.
C34_StopEndsAutoExecution ==
    [][(activeSession = 0 /\ share = "idle")
          => /\ sendCount' = sendCount
             /\ \A c \in Callers \ {"ui"} :
                   send[c].pc = "idle" => send'[c].pc = "idle"]_vars


\* C35: the device page leaves the sharing state only if the store has marked
\* the session inactive: when the update of closeSession fails the page keeps
\* its active session, so no session is active in the store after its device
\* side has stopped sharing.
C35_StopOnlyIfClosed ==
    [][(activeSession # 0 /\ activeSession' = 0)
          => remote_sessions'[activeSession] = "inactive"]_vars


\* C36: a connectToDevice call that rejects because the device id is not in
\* the stored scan result leaves the link as it was: the active flag, the
\* stored characteristic and the connected device are unchanged.
C36_FailedLookupKeepsLink ==
    [][\A d \in DeviceIds :
          (ConnectCall(d) /\ isWebBluetoothAvailable /\ d \notin scannedDevices)
             => /\ isConnectionActive' = isConnectionActive
                /\ characteristic' = characteristic
                /\ connectedDevice' = connectedDevice]_vars


\* C37: a record with sender 'user' is appended only for a line the local
\* user sent: the sendCommand made for a support record by the poll or the
\* INSERT handler appends nothing to the log, so every support command is in
\* the log once.
C37_AutoExecutionAppendsNothing ==
    [][\A c \in Callers \ {"ui"} :
          (send[c].pc = "writing" /\ send'[c].pc # "writing")
             => session_commands' = session_commands]_vars


\* C38: every record of the viewed session is in the transcript of the support
\* page at most once, however the INSERT events and the polls interleave: no
\* line is shown more often than the session has records that make that line.
C38_EachRecordOnce ==
    connectedSession # 0 =>
        \A k \in 1..Len(supOutput) :
            Cardinality({i \in 1..Len(supOutput) : supOutput[i] = supOutput[k]})
               <= Cardinality({j \in 1..Len(session_commands) :
                                   /\ session_commands[j].session_id = connectedSession
                                   /\ supportLine(session_commands[j]) = supOutput[k]})

\* C39: getSession(id) returns a session only if the store holds it as active
\* at the time of the call, so the support page cannot join a session that
\* another client has closed.
C39_JoinOnlyActive ==
    [][\A sid \in SessionIds :
          /\ SupConnectToSession(sid) => getSession(supSessions, sid).found
                                            = (sid \in ActiveInStore)
          /\ (SupConnectToSession(sid) /\ connectedSession' = sid)
                => sid \in ActiveInStore]_vars


\* C40: once removeSessionsListener(cb) has returned, cb is not called any
\* more, neither by a notification nor by the first call that
\* addSessionsListener had scheduled before the removal.
C40_RemovedListenerSilent ==
    [][SupListenerCall => ~Head(supNotes).removed]_vars
====
